---- MODULE Spec2Model ----
(***************************************************************************)
(* A model of the Cairo VM core of cleopatra_cairo: the segment manager    *)
(* (vm/vm_memory/memory_segments.rs), the trace relocation                 *)
(* (vm/trace/trace_entry.rs), the add_segment hint (vm/hints/hint_utils.rs)*)
(* and the instruction decoder (vm/decoding/decoder.rs).                   *)
(*                                                                         *)
(* Spec     the memory and segment manager as a state machine              *)
(* SpecDec  decode_instruction applied to every 16-bit flag field          *)
(* SpecOff  decode_instruction applied to every value of each offset field *)
(*                                                                         *)
(* TLC integers are 32 bits wide, so the 64-bit instruction word is kept   *)
(* as its four 16-bit limbs, least significant first.                      *)
(***************************************************************************)
EXTENDS Integers, Sequences, FiniteSets, TLC

----------------------------------------------------------------------------
(* Bounds of the model *)

\* number of segments a run may allocate
MaxSegments == 2
\* largest offset a write is made at
MaxOffset == 1
\* number of distinct cells a run may write
MaxWrites == 2

\* integers stored in memory (the values the tests of load_data store)
IntValues == {4, 5}

----------------------------------------------------------------------------
(* Values *)

\* Option::None, and an unset memory cell
None == [t |-> "none"]

\* Option::Some(x)
Some(x) == [t |-> "some", v |-> x]

\* MaybeRelocatable::Int
IntValue(n) == [t |-> "int", v |-> n]

\* MaybeRelocatable::RelocatableValue(Relocatable {segment_index, offset})
Rel(s, o) == [t |-> "rel", s |-> s, o |-> o]

\* Result::Ok(x) and Result::Err(e)
Ok(x) == [err |-> "Ok", val |-> x]

Err(e) == [err |-> e]

VARIABLES
    data,                \* Memory.data: the segments, each a sequence of cells
    num_segments,        \* MemorySegmentManager.num_segments
    segment_used_sizes,  \* MemorySegmentManager.segment_used_sizes: None or Some(sizes)
    ap,                  \* RunContext.ap
    relocation_table,    \* the table the last successful relocate_segments returned
    last_op,             \* the last operation called
    last_res,            \* what the last operation returned
    written,             \* history: the addresses a write has set
    stale,               \* history: memory or segments changed after the sizes were computed
    bases,               \* history: the bases the calls of add returned, in order
    encoded_instr,       \* the word given to decode_instruction, as four 16-bit limbs
    imm,                 \* the immediate given to decode_instruction
    decoded,             \* what decode_instruction returned
    pc,                  \* RunContext.pc
    fp,                  \* RunContext.fp
    reference,           \* the HintReference given to compute_addr_from_reference
    tracking,            \* the hint_ap_tracking given to it: None or Some(ApTracking)
    overflow_checks,     \* whether the build panics on arithmetic overflow
    resolved,            \* what compute_addr_from_reference ended with
    prime,               \* VirtualMachine.prime
    builtin_runners,     \* VirtualMachine.builtin_runners: (name, runner) in order
    references,          \* VirtualMachine.references: the HintReference of each id
    hint_ids,            \* the ids given to the hint: name -> reference id
    hint_code,           \* the hint that ran
    hint_res             \* what the hint returned

memvars ==
    <<data, num_segments, segment_used_sizes, ap, relocation_table, last_op, last_res,
      written, stale, bases>>

decvars == <<encoded_instr, imm, decoded>>

refvars == <<pc, fp, reference, tracking, overflow_checks, resolved>>

hintvars == <<prime, builtin_runners, references, hint_ids, hint_code, hint_res>>

vars == <<memvars, decvars, refvars, hintvars>>

----------------------------------------------------------------------------
(* Memory (vm/vm_memory/memory.rs and types/relocatable.rs are not among   *)
(* the sources: modelled from the specification and from the tests of      *)
(* memory_segments.rs, which read memory.data and insert with gaps)        *)

\* Vec::resize(n, None) when the segment is shorter than n
Resize(segment, n) ==
    IF Len(segment) >= n THEN segment
    ELSE segment \o [i \in 1..(n - Len(segment)) |-> None]

\* Memory::insert: write-once; the segment grows to hold the offset
insert(mem, key, val) ==
    IF key.t # "rel" THEN [data |-> mem, err |-> "AddressNotRelocatable"]
    ELSE IF key.s >= Len(mem) THEN [data |-> mem, err |-> "UnallocatedSegment"]
    ELSE LET segment == Resize(mem[key.s + 1], key.o + 1)
             current == segment[key.o + 1]
         IN  IF current = None
             THEN [data |-> [mem EXCEPT ![key.s + 1] = [segment EXCEPT ![key.o + 1] = val]],
                   err |-> "Ok"]
             ELSE IF current = val THEN [data |-> mem, err |-> "Ok"]
             ELSE [data |-> mem, err |-> "InconsistentMemory"]

\* Memory::get on a relocatable address: None when the cell is missing
get(mem, key) ==
    IF key.s < Len(mem) /\ key.o < Len(mem[key.s + 1]) THEN mem[key.s + 1][key.o + 1]
    ELSE None

\* MaybeRelocatable::add_usize_mod(n, None)
add_usize_mod(ptr, n) ==
    IF ptr.t = "rel" THEN Rel(ptr.s, ptr.o + n) ELSE IntValue(ptr.v + n)

\* the addresses of the cells of mem that hold a value
Cells(mem) ==
    UNION {{Rel(s - 1, o - 1) : o \in {j \in 1..Len(mem[s]) : mem[s][j] # None}} : s \in 1..Len(mem)}

----------------------------------------------------------------------------
(* MemorySegmentManager *)

\* add that pushes the segment and leaves num_segments as it was
add_no_count(num, mem) ==
    [base |-> Rel(num, 0), num_segments |-> num, data |-> Append(mem, <<>>)]

\* add: the new segment's base, the manager's counter and the memory after the call
add(num, mem) ==
    [base |-> Rel(num, 0), num_segments |-> num + 1, data |-> Append(mem, <<>>)]

RECURSIVE load_data_from(_, _, _, _)
\* the loop of load_data from element num on: `?` returns the first error
load_data_from(mem, ptr, values, num) ==
    IF num >= Len(values)
    THEN [data |-> mem, num |-> num, res |-> Ok(add_usize_mod(ptr, Len(values)))]
    ELSE LET r == insert(mem, add_usize_mod(ptr, num), values[num + 1])
         IN  IF r.err # "Ok" THEN [data |-> r.data, num |-> num, res |-> Err(r.err)]
             ELSE load_data_from(r.data, ptr, values, num + 1)

RECURSIVE load_data_unchecked(_, _, _)
\* load_data with the `?` dropped: a rejected write is skipped and the call succeeds
load_data_unchecked(mem, ptr, values) ==
    IF values = <<>> THEN [data |-> mem, num |-> 0, res |-> Ok(ptr)]
    ELSE LET r == load_data_unchecked(insert(mem, ptr, Head(values)).data,
                                      add_usize_mod(ptr, 1), Tail(values))
         IN  [r EXCEPT !.num = r.num + 1]

\* load_data returning the pointer it was given instead of the one past the data
load_data_returns_ptr(mem, ptr, values) ==
    LET r == load_data_from(mem, ptr, values, 0)
    IN  IF r.res.err = "Ok" THEN [r EXCEPT !.res = Ok(ptr)] ELSE r

\* load_data
load_data(mem, ptr, values) == load_data_from(mem, ptr, values, 0)

\* compute_effective_sizes counting the cells that hold a value (what its comment says)
compute_effective_sizes_non_none(sizes, mem) ==
    IF sizes # None THEN sizes
    ELSE Some([i \in 1..Len(mem) |->
                 Cardinality({j \in 1..Len(mem[i]) : mem[i][j] # None})])

\* compute_effective_sizes without the early return: the sizes are computed at each call
compute_effective_sizes_again(sizes, mem) ==
    Some([i \in 1..Len(mem) |-> Len(mem[i])])

\* compute_effective_sizes: the lengths of the segments, once
compute_effective_sizes(sizes, mem) ==
    IF sizes # None THEN sizes
    ELSE Some([i \in 1..Len(mem) |-> Len(mem[i])])

\* first_addr of relocate_segments
first_addr == 1

RECURSIVE relocation_loop(_, _, _)
\* the loop of relocate_segments: relocation_table.push(relocation_table[i] + size)
relocation_loop(table, sizes, i) ==
    IF i > Len(sizes) THEN table
    ELSE relocation_loop(Append(table, table[i] + sizes[i]), sizes, i + 1)

\* relocate_segments without the final pop: the total stays in the table
relocate_segments_no_pop(sizes) ==
    IF sizes = None THEN Err("EffectiveSizesNotCalled")
    ELSE Ok(relocation_loop(<<first_addr>>, sizes.v, 1))

\* relocate_segments
relocate_segments(sizes) ==
    IF sizes = None THEN Err("EffectiveSizesNotCalled")
    ELSE LET table == relocation_loop(<<first_addr>>, sizes.v, 1)
         IN  Ok(SubSeq(table, 1, Len(table) - 1))

----------------------------------------------------------------------------
(* Trace relocation *)

\* relocate_trace_register that forgets the offset
relocate_trace_register_base(value, table) ==
    IF Len(table) <= value.s THEN Err("NoRelocationFound")
    ELSE Ok(table[value.s + 1])

\* relocate_trace_register
relocate_trace_register(value, table) ==
    IF Len(table) <= value.s THEN Err("NoRelocationFound")
    ELSE Ok(table[value.s + 1] + value.o)

----------------------------------------------------------------------------
(* The instruction decoder.  An i64 is the sequence of its four 16-bit limbs, *)
(* least significant first, in two's complement.                              *)

\* the 2^16 values of a limb
Limb == 2 ^ 16

RECURSIVE BitAnd(_, _)
\* a & b on naturals
BitAnd(a, b) ==
    IF a = 0 \/ b = 0 THEN 0
    ELSE (a % 2) * (b % 2) + 2 * BitAnd(a \div 2, b \div 2)

\* the limb that extends the sign of an i64
SignLimb(word) == IF word[4] >= Limb \div 2 THEN Limb - 1 ELSE 0

\* word >> n on an i64, an arithmetic shift by a multiple of 16 bits
Shr64(word, n) ==
    [i \in 1..4 |-> IF i + n \div 16 <= 4 THEN word[i + n \div 16] ELSE SignLimb(word)]

\* a mask that lets bit 15 through
And64_with_bit15(word, mask) == BitAnd(word[1], mask + BitAnd(Limb \div 2, Limb - 1 - mask))

\* word & mask on an i64, for a mask below 2^16: the result is below 2^16
And64(word, mask) == BitAnd(word[1], mask)

DST_REG_MASK == 1
DST_REG_OFF == 0
OP0_REG_MASK == 2
OP0_REG_OFF == 1
OP1_SRC_MASK == 28
OP1_SRC_OFF == 2
RES_LOGIC_MASK == 96
RES_LOGIC_OFF == 5
PC_UPDATE_MASK == 896
PC_UPDATE_OFF == 7
AP_UPDATE_MASK == 3072
AP_UPDATE_OFF == 10
OPCODE_MASK == 28672
OPCODE_OFF == 12
FLAGS_OFFSET == 48
OFF0_OFF == 0
OFF1_OFF == 16
OFF2_OFF == 32
OFFX_MASK == 65535

\* complement_const of decode_offset: 0x8000
complement_const == 32768

\* decode_offset reading the two bytes as an i16, the bias not subtracted
decode_offset_no_bias(offset) ==
    LET offset_16b_encoded == (offset % 256) + 256 * ((offset \div 256) % 256)
    IN  IF offset_16b_encoded >= Limb \div 2 THEN offset_16b_encoded - Limb
        ELSE offset_16b_encoded

\* decode_offset: the two low bytes as a u16, minus 0x8000 wrapping, read as an i16
decode_offset(offset) ==
    LET vectorized_offset == [i \in 1..2 |-> (offset \div (256 ^ (i - 1))) % 256]
        offset_16b_encoded == vectorized_offset[1] + 256 * vectorized_offset[2]
        offset_16b == (offset_16b_encoded - complement_const) % Limb
    IN  IF offset_16b >= Limb \div 2 THEN offset_16b - Limb ELSE offset_16b

\* what decode_instruction returns: an Instruction, an error with the field's value,
\* or nothing when assert! panics
DecOk(inst) == [kind |-> "Ok", inst |-> inst]

DecErr(e, n) == [kind |-> "Err", err |-> e, val |-> n]

DecPanic == [kind |-> "Panic"]

\* match op1_src_num
op1_addr_of(op1_src_num) ==
    CASE op1_src_num = 0 -> "Op0"
      [] op1_src_num = 1 -> "Imm"
      [] op1_src_num = 2 -> "FP"
      [] op1_src_num = 4 -> "AP"
      [] OTHER -> "Invalid"

\* match pc_update_num with the catch-all arm decoding to Jnz
pc_update_of_catch_all(pc_update_num) ==
    CASE pc_update_num = 0 -> "Regular"
      [] pc_update_num = 1 -> "Jump"
      [] pc_update_num = 2 -> "JumpRel"
      [] OTHER -> "Jnz"

\* match pc_update_num
pc_update_of(pc_update_num) ==
    CASE pc_update_num = 0 -> "Regular"
      [] pc_update_num = 1 -> "Jump"
      [] pc_update_num = 2 -> "JumpRel"
      [] pc_update_num = 4 -> "Jnz"
      [] OTHER -> "Invalid"

\* match res_logic_num without the Jnz guard
res_of_no_guard(res_logic_num, pc_update) ==
    CASE res_logic_num = 0 -> "Op1"
      [] res_logic_num = 1 -> "Add"
      [] res_logic_num = 2 -> "Mul"
      [] OTHER -> "Invalid"

\* match res_logic_num
res_of(res_logic_num, pc_update) ==
    CASE res_logic_num = 0 /\ pc_update = "Jnz" -> "Unconstrained"
      [] res_logic_num = 0 /\ pc_update # "Jnz" -> "Op1"
      [] res_logic_num = 1 -> "Add"
      [] res_logic_num = 2 -> "Mul"
      [] OTHER -> "Invalid"

\* match opcode_num
opcode_of(opcode_num) ==
    CASE opcode_num = 0 -> "NOp"
      [] opcode_num = 1 -> "Call"
      [] opcode_num = 2 -> "Ret"
      [] opcode_num = 4 -> "AssertEq"
      [] OTHER -> "Invalid"

\* match ap_update_num with Add2 for every Call
ap_update_of_call_add2(ap_update_num, opcode) ==
    CASE ap_update_num <= 2 /\ opcode = "Call" -> "Add2"
      [] ap_update_num = 0 /\ opcode # "Call" -> "Regular"
      [] ap_update_num = 1 /\ opcode # "Call" -> "Add"
      [] ap_update_num = 2 /\ opcode # "Call" -> "Add1"
      [] OTHER -> "Invalid"

\* match ap_update_num
ap_update_of(ap_update_num, opcode) ==
    CASE ap_update_num = 0 /\ opcode = "Call" -> "Add2"
      [] ap_update_num = 0 /\ opcode # "Call" -> "Regular"
      [] ap_update_num = 1 -> "Add"
      [] ap_update_num = 2 -> "Add1"
      [] OTHER -> "Invalid"

\* match opcode for fp_update, the Ret arm missing
fp_update_of_no_ret(opcode) ==
    CASE opcode = "Call" -> "APPlus2"
      [] OTHER -> "Regular"

\* match opcode for fp_update
fp_update_of(opcode) ==
    CASE opcode = "Call" -> "APPlus2"
      [] opcode = "Ret" -> "Dst"
      [] OTHER -> "Regular"

\* decode_instruction
decode_instruction(encoded, immediate) ==
    LET off0 == decode_offset(And64(Shr64(encoded, OFF0_OFF), OFFX_MASK))
        off1 == decode_offset(And64(Shr64(encoded, OFF1_OFF), OFFX_MASK))
        off2 == decode_offset(And64(Shr64(encoded, OFF2_OFF), OFFX_MASK))
        flags == Shr64(encoded, FLAGS_OFFSET)
        dst_reg_num == And64(flags, DST_REG_MASK) \div (2 ^ DST_REG_OFF)
        op0_reg_num == And64(flags, OP0_REG_MASK) \div (2 ^ OP0_REG_OFF)
        op1_src_num == And64(flags, OP1_SRC_MASK) \div (2 ^ OP1_SRC_OFF)
        res_logic_num == And64(flags, RES_LOGIC_MASK) \div (2 ^ RES_LOGIC_OFF)
        pc_update_num == And64(flags, PC_UPDATE_MASK) \div (2 ^ PC_UPDATE_OFF)
        ap_update_num == And64(flags, AP_UPDATE_MASK) \div (2 ^ AP_UPDATE_OFF)
        opcode_num == And64(flags, OPCODE_MASK) \div (2 ^ OPCODE_OFF)
        dst_register == IF dst_reg_num = 1 THEN "FP" ELSE "AP"
        op0_register == IF op0_reg_num = 1 THEN "FP" ELSE "AP"
        op1_addr == op1_addr_of(op1_src_num)
        pc_update == pc_update_of(pc_update_num)
        res == res_of(res_logic_num, pc_update)
        opcode == opcode_of(opcode_num)
        ap_update == ap_update_of(ap_update_num, opcode)
        fp_update == fp_update_of(opcode)
    IN  IF op1_addr = "Invalid" THEN DecErr("InvalidOp1Reg", op1_src_num)
        ELSE IF op1_addr = "Imm" /\ immediate = None THEN DecPanic
        ELSE IF pc_update = "Invalid" THEN DecErr("InvalidPcUpdate", pc_update_num)
        ELSE IF res = "Invalid" THEN DecErr("InvalidRes", res_logic_num)
        ELSE IF opcode = "Invalid" THEN DecErr("InvalidOpcode", opcode_num)
        ELSE IF ap_update = "Invalid" THEN DecErr("InvalidApUpdate", ap_update_num)
        ELSE DecOk([off0 |-> off0, off1 |-> off1, off2 |-> off2,
                    imm |-> IF op1_addr = "Imm" THEN immediate ELSE None,
                    dst_register |-> dst_register, op0_register |-> op0_register,
                    op1_addr |-> op1_addr, res |-> res, pc_update |-> pc_update,
                    ap_update |-> ap_update, fp_update |-> fp_update, opcode |-> opcode])

\* a size that does not look at the immediate
size_no_imm(inst) == 1

\* Instruction::size
size(inst) == IF inst.imm # None THEN 2 ELSE 1

----------------------------------------------------------------------------
(* Hints *)

\* add_segment: memory[ap] = segments.add()
add_segment(num, mem, run_ap) ==
    LET new_segment == add(num, mem)
        r == insert(new_segment.data, run_ap, new_segment.base)
    IN  [data |-> r.data, num_segments |-> new_segment.num_segments,
         new_segment_base |-> new_segment.base,
         res |-> IF r.err = "Ok" THEN Ok(None) ELSE [err |-> "MemoryError", val |-> r.err]]

(* Reference resolution.  A usize is written as the integer of least magnitude that *)
(* is congruent to it modulo 2^64: n >= 0 is n, and n < 0 is 2^64 + n, a value of    *)
(* at least 2^63.  Every usize of the runs below has a magnitude under 2^31, so `as  *)
(* i32` (the low 32 bits) and `as usize` (sign extension) keep the representative.   *)
(* Arithmetic that overflows panics in a build with overflow checks (debug) and      *)
(* wraps in a build without (release): overflow_checks says which build runs.        *)

\* i32::MAX
MaxI32 == 2147483647

\* i32::MIN
MinI32 == (-MaxI32) - 1

\* a < b on usize
ULt(a, b) == IF (a >= 0) <=> (b >= 0) THEN a < b ELSE a >= 0

\* a - b on usize: whether it overflows, and the wrapped difference
usize_sub(a, b) == [overflow |-> ULt(a, b), v |-> a - b]

\* a + b on i32: whether it overflows, and the wrapped sum
i32_add(a, b) ==
    IF b > 0 /\ a > MaxI32 - b
    THEN [overflow |-> TRUE, v |-> ((a - MaxI32) + (b - MaxI32)) - 2]
    ELSE IF b < 0 /\ a < MinI32 - b
    THEN [overflow |-> TRUE, v |-> (a - MinI32) + (b - MinI32)]
    ELSE [overflow |-> FALSE, v |-> a + b]

\* i32::abs: whether it overflows, and the wrapped value
i32_abs(x) ==
    IF x = MinI32 THEN [overflow |-> TRUE, v |-> MinI32]
    ELSE [overflow |-> FALSE, v |-> IF x < 0 THEN -x ELSE x]

\* `as i32` on a usize: the low 32 bits, as two 16-bit limbs, the upper one signed
as_i32(u) ==
    LET lo == u % Limb
        hi == (u \div Limb) % Limb
    IN  (IF hi >= Limb \div 2 THEN hi - Limb ELSE hi) * Limb + lo

\* `as usize` on an i32: sign extension; i < 0 becomes 2^64 + i, which is written i
as_usize(i) == IF i < 0 THEN (0 - 1) - ((0 - 1) - i) ELSE i

\* what resolution ends with: Ok(Some(address)) or Ok(None), an error, or a panic; base
\* is the local base_addr when it was computed
RefOk(base, addr) == [kind |-> "Ok", err |-> "", base |-> base, addr |-> addr]

RefErr(e) == [kind |-> "Err", err |-> e, base |-> None, addr |-> None]

RefPanic(base) == [kind |-> "Panic", err |-> "", base |-> base, addr |-> None]

\* apply_ap_tracking_correction
apply_ap_tracking_correction(run_ap, ref_ap_tracking, hint_tracking, checks) ==
    IF ref_ap_tracking.group # hint_tracking.group THEN RefErr("InvalidTrackingGroup")
    ELSE LET ap_diff == usize_sub(hint_tracking.offset, ref_ap_tracking.offset)
             offset == usize_sub(run_ap.o, ap_diff.v)
         IN  IF checks /\ (ap_diff.overflow \/ offset.overflow) THEN RefPanic(None)
             ELSE RefOk(Some(Rel(run_ap.s, offset.v)), None)

\* base_addr of compute_addr_from_reference
base_addr_of(hint_reference, run_ap, run_fp, hint_tracking, checks) ==
    IF hint_reference.register = "FP" THEN RefOk(Some(run_fp), None)
    ELSE IF hint_tracking = None \/ hint_reference.ap_tracking_data = None
    THEN RefErr("NoneApTrackingData")
    ELSE IF run_ap.t # "rel" THEN RefErr("InvalidApValue")
    ELSE apply_ap_tracking_correction(run_ap, hint_reference.ap_tracking_data.v,
                                      hint_tracking.v, checks)

\* the address computed from a base that is a relocatable
addr_from_base(hint_reference, relocatable, mem, checks) ==
    LET base == Some(relocatable)
        offset1 == hint_reference.offset1
        offset2 == hint_reference.offset2
        abs1 == i32_abs(offset1)
        sum1 == i32_add(as_i32(relocatable.o), offset1)
        sum2 == i32_add(sum1.v, offset2)
        addr == Rel(relocatable.s, as_usize(sum1.v))
        cell == IF addr.o < 0 THEN None ELSE get(mem, addr)
        sum3 == i32_add(as_i32(cell.o), offset2)
    IN  IF offset1 < 0 /\ checks /\ abs1.overflow THEN RefPanic(base)
        ELSE IF offset1 < 0 /\ ULt(relocatable.o, as_usize(abs1.v)) THEN RefOk(base, None)
        ELSE IF ~hint_reference.inner_dereference
        THEN IF checks /\ (sum1.overflow \/ sum2.overflow) THEN RefPanic(base)
             ELSE RefOk(base, Some(Rel(relocatable.s, as_usize(sum2.v))))
        ELSE IF checks /\ sum1.overflow THEN RefPanic(base)
        ELSE IF cell.t # "rel" THEN RefOk(base, None)
        ELSE IF checks /\ sum3.overflow THEN RefPanic(base)
        ELSE RefOk(base, Some(Rel(cell.s, as_usize(sum3.v))))

\* compute_addr_from_reference
compute_addr_from_reference(hint_reference, run_ap, run_fp, mem, hint_tracking, checks) ==
    LET base_addr == base_addr_of(hint_reference, run_ap, run_fp, hint_tracking, checks)
    IN  IF base_addr.kind # "Ok" THEN base_addr
        ELSE IF base_addr.base.v.t # "rel" THEN RefOk(base_addr.base, None)
        ELSE addr_from_base(hint_reference, base_addr.base.v, mem, checks)

\* BigInt::to_usize on a reference id
to_usize(n) == IF n >= 0 THEN Some(n) ELSE None

\* get_address_from_reference; references holds the ids 0 .. len - 1, as the program's
\* reference manager lists them
get_address_from_reference(reference_id, refs, run_ap, run_fp, mem, hint_tracking, checks) ==
    LET index == to_usize(reference_id)
    IN  IF index # None /\ index.v < Len(refs)
        THEN compute_addr_from_reference(refs[index.v + 1], run_ap, run_fp, mem,
                                         hint_tracking, checks)
        ELSE RefOk(None, None)

\* what a hint returns: Ok(()), an error and the value it carries, or a panic
HintOk == [err |-> "Ok", val |-> None]

HintErr(e, v) == [err |-> e, val |-> v]

HintPanic == [err |-> "Panic", val |-> None]

\* Integer::mod_floor: the remainder has the sign of the divisor, which is not zero
mod_floor(a, p) == IF p > 0 THEN a % p ELSE 0 - ((0 - a) % (0 - p))

\* the first builtin named "range_check" of vm.builtin_runners, downcast to a
\* RangeCheckBuiltinRunner: None when there is none or the downcast fails
first_range_check(builtins) ==
    LET named == {i \in 1..Len(builtins) : builtins[i].name = "range_check"}
    IN  IF named = {} THEN None
        ELSE LET builtin == builtins[CHOOSE i \in named : \A j \in named : i <= j]
             IN  IF builtin.runner = "RangeCheckBuiltinRunner" THEN Some(builtin) ELSE None

\* the integer a hint reads through the id `name`: the checks every hint starts with
read_integer(name, ids, refs, run_ap, run_fp, mem, hint_tracking, checks) ==
    IF name \notin DOMAIN ids THEN HintErr("IncorrectIds", None)
    ELSE LET a_addr == get_address_from_reference(ids[name], refs, run_ap, run_fp, mem,
                                                  hint_tracking, checks)
         IN  IF a_addr.kind = "Panic" THEN HintPanic
             ELSE IF a_addr.kind # "Ok" \/ a_addr.addr = None THEN HintErr("FailedToGetIds", None)
             ELSE IF a_addr.addr.v.o < 0 \/ get(mem, a_addr.addr.v) = None
             THEN HintErr("FailedToGetIds", None)
             ELSE IF get(mem, a_addr.addr.v).t # "int"
             THEN HintErr("ExpectedInteger", a_addr.addr.v)
             ELSE HintOk

\* assert_nn comparing a itself with the bound
assert_nn_no_mod(ids, refs, run_ap, run_fp, mem, builtins, vm_prime, hint_tracking, checks) ==
    LET read == read_integer("a", ids, refs, run_ap, run_fp, mem, hint_tracking, checks)
        a_addr == get_address_from_reference(ids.a, refs, run_ap, run_fp, mem,
                                             hint_tracking, checks)
        a == get(mem, a_addr.addr.v).v
        range_check_builtin == first_range_check(builtins)
    IN  IF read.err # "Ok" THEN read
        ELSE IF range_check_builtin = None THEN HintErr("NoRangeCheckBuiltin", None)
        ELSE IF a < range_check_builtin.v.bound THEN HintOk
        ELSE HintErr("ValueOutOfRange", a)

\* assert_nn
assert_nn(ids, refs, run_ap, run_fp, mem, builtins, vm_prime, hint_tracking, checks) ==
    LET read == read_integer("a", ids, refs, run_ap, run_fp, mem, hint_tracking, checks)
        a_addr == get_address_from_reference(ids.a, refs, run_ap, run_fp, mem,
                                             hint_tracking, checks)
        a == get(mem, a_addr.addr.v).v
        range_check_builtin == first_range_check(builtins)
    IN  IF read.err # "Ok" THEN read
        ELSE IF range_check_builtin = None THEN HintErr("NoRangeCheckBuiltin", None)
        ELSE IF mod_floor(a, vm_prime) < range_check_builtin.v.bound THEN HintOk
        ELSE HintErr("ValueOutOfRange", a)

\* what a hint that may write ends with: its result and the memory it leaves
Ran(res, mem) == [res |-> res, memory |-> mem]

\* get_address_from_reference(id, &vm.references, &vm.run_context, vm, hint_ap_tracking)
address_of(vm, reference_id, hint_ap_tracking) ==
    get_address_from_reference(reference_id, vm.references, vm.run_context.ap,
                               vm.run_context.fp, vm.memory, hint_ap_tracking,
                               vm.overflow_checks)

\* Ok(Some(address))
IsAddr(r) == r.kind = "Ok" /\ r.addr # None

\* vm.memory.get(&address): an offset of 2^63 or more is in no segment
memory_get(mem, address) == IF address.o < 0 THEN None ELSE get(mem, address)

\* small_inputs as the reference hint computes it, from b - a
small_inputs_of_b_minus_a(a, b, bound) == IF a < bound /\ (b - a) < bound THEN 1 ELSE 0

\* the value assert_le_felt writes to small_inputs
small_inputs_of(a, b, bound) == IF a < bound /\ (a - b) < bound THEN 1 ELSE 0

\* assert_le_felt
assert_le_felt(vm, ids, hint_ap_tracking) ==
    IF ~({"a", "b", "small_inputs"} \subseteq DOMAIN ids)
    THEN Ran(HintErr("IncorrectIds", None), vm.memory)
    ELSE LET a_addr == address_of(vm, ids.a, hint_ap_tracking)
             b_addr == address_of(vm, ids.b, hint_ap_tracking)
             small_inputs_addr == address_of(vm, ids.small_inputs, hint_ap_tracking)
             maybe_rel_a == memory_get(vm.memory, a_addr.addr.v)
             maybe_rel_b == memory_get(vm.memory, b_addr.addr.v)
             a == maybe_rel_a.v
             b == maybe_rel_b.v
             builtin == first_range_check(vm.builtin_runners)
             value == small_inputs_of(a, b, builtin.v.bound)
             inserted == insert(vm.memory, small_inputs_addr.addr.v, IntValue(value))
         IN  IF "Panic" \in {a_addr.kind, b_addr.kind, small_inputs_addr.kind}
             THEN Ran(HintPanic, vm.memory)
             ELSE IF ~(IsAddr(a_addr) /\ IsAddr(b_addr) /\ IsAddr(small_inputs_addr))
             THEN Ran(HintErr("FailedToGetIds", None), vm.memory)
             ELSE IF \/ maybe_rel_a = None
                     \/ maybe_rel_b = None
                     \/ memory_get(vm.memory, small_inputs_addr.addr.v) # None
             THEN Ran(HintErr("FailedToGetIds", None), vm.memory)
             ELSE IF maybe_rel_a.t # "int"
             THEN Ran(HintErr("ExpectedInteger", a_addr.addr.v), vm.memory)
             ELSE IF maybe_rel_b.t # "int"
             THEN Ran(HintErr("ExpectedInteger", b_addr.addr.v), vm.memory)
             ELSE IF builtin = None THEN Ran(HintErr("NoRangeCheckBuiltin", None), vm.memory)
             ELSE IF mod_floor(a, vm.prime) > mod_floor(b, vm.prime)
             THEN Ran(HintErr("NonLeFelt", <<a, b>>), vm.memory)
             ELSE IF inserted.err = "Ok" THEN Ran(HintOk, inserted.data)
             ELSE Ran(HintErr("MemoryError", inserted.err), vm.memory)

\* split_int up to its main logic: the ids, their addresses, their cells and the
\* types of the cells
split_int_checks(vm, ids, hint_ap_tracking) ==
    IF ~({"output", "value", "base", "bound"} \subseteq DOMAIN ids)
    THEN HintErr("IncorrectIds", None)
    ELSE LET output_addr == address_of(vm, ids.output, hint_ap_tracking)
             value_addr == address_of(vm, ids.value, hint_ap_tracking)
             base_addr == address_of(vm, ids.base, hint_ap_tracking)
             bound_addr == address_of(vm, ids.bound, hint_ap_tracking)
             addrs == <<output_addr, value_addr, base_addr, bound_addr>>
             mr_output == memory_get(vm.memory, output_addr.addr.v)
             mr_value == memory_get(vm.memory, value_addr.addr.v)
             mr_base == memory_get(vm.memory, base_addr.addr.v)
             mr_bound == memory_get(vm.memory, bound_addr.addr.v)
         IN  IF \E i \in 1..4 : addrs[i].kind = "Panic" THEN HintPanic
             ELSE IF \E i \in 1..4 : ~IsAddr(addrs[i]) THEN HintErr("FailedToGetIds", None)
             ELSE IF None \in {mr_output, mr_value, mr_base, mr_bound}
             THEN HintErr("FailedToGetIds", None)
             ELSE IF mr_output.t # "rel" \/ {mr_value.t, mr_base.t, mr_bound.t} # {"int"}
             THEN HintErr("FailedToGetIds", None)
             ELSE HintOk

\* split_int accepting only res < bound, as the reference hint does
split_int_strict(vm, ids, hint_ap_tracking) ==
    LET r == split_int_checks(vm, ids, hint_ap_tracking)
        output == memory_get(vm.memory, address_of(vm, ids.output, hint_ap_tracking).addr.v)
        value == memory_get(vm.memory, address_of(vm, ids.value, hint_ap_tracking).addr.v).v
        base == memory_get(vm.memory, address_of(vm, ids.base, hint_ap_tracking).addr.v).v
        bound == memory_get(vm.memory, address_of(vm, ids.bound, hint_ap_tracking).addr.v).v
        res == mod_floor(mod_floor(value, vm.prime), base)
        inserted == insert(vm.memory, output, IntValue(res))
    IN  IF r.err # "Ok" THEN Ran(r, vm.memory)
        ELSE IF base = 0 THEN Ran(HintPanic, vm.memory)
        ELSE IF res >= bound THEN Ran(HintErr("SplitIntLimbOutOfRange", res), vm.memory)
        ELSE IF inserted.err = "Ok" THEN Ran(HintOk, inserted.data)
        ELSE Ran(HintErr("MemoryError", inserted.err), vm.memory)

\* split_int; a base of zero makes mod_floor panic
split_int(vm, ids, hint_ap_tracking) ==
    LET r == split_int_checks(vm, ids, hint_ap_tracking)
        output == memory_get(vm.memory, address_of(vm, ids.output, hint_ap_tracking).addr.v)
        value == memory_get(vm.memory, address_of(vm, ids.value, hint_ap_tracking).addr.v).v
        base == memory_get(vm.memory, address_of(vm, ids.base, hint_ap_tracking).addr.v).v
        bound == memory_get(vm.memory, address_of(vm, ids.bound, hint_ap_tracking).addr.v).v
        res == mod_floor(mod_floor(value, vm.prime), base)
        inserted == insert(vm.memory, output, IntValue(res))
    IN  IF r.err # "Ok" THEN Ran(r, vm.memory)
        ELSE IF base = 0 THEN Ran(HintPanic, vm.memory)
        ELSE IF res > bound THEN Ran(HintErr("SplitIntLimbOutOfRange", res), vm.memory)
        ELSE IF inserted.err = "Ok" THEN Ran(HintOk, inserted.data)
        ELSE Ran(HintErr("MemoryError", inserted.err), vm.memory)

\* as_int(value, prime): the signed view of a field element
as_int(value, vm_prime) == IF value < vm_prime \div 2 THEN value ELSE value - vm_prime

\* a division that truncates towards zero
div_rem_truncated(a, b) ==
    IF a >= 0 THEN [q |-> a \div b, r |-> a % b]
    ELSE [q |-> 0 - ((0 - a) \div b), r |-> 0 - ((0 - a) % b)]

\* Integer::div_mod_floor by a positive divisor
div_mod_floor(a, b) == [q |-> a \div b, r |-> a % b]

\* a range for div that leaves out its upper end
div_in_range_exclusive(div, vm_prime, bound) == div > 0 /\ div < vm_prime \div bound

\* div.is_positive() && div <= prime / _bound
div_in_range(div, vm_prime, bound) == div > 0 /\ div <= vm_prime \div bound

\* the two writes of a division hint: both inserts are made, and the first error,
\* if any, is returned
insert_both(mem, addr1, val1, addr2, val2) ==
    LET first == insert(mem, addr1, val1)
        second == insert(first.data, addr2, val2)
    IN  IF first.err # "Ok" THEN Ran(HintErr("MemoryError", first.err), second.data)
        ELSE IF second.err # "Ok" THEN Ran(HintErr("MemoryError", second.err), second.data)
        ELSE Ran(HintOk, second.data)

\* signed_div_rem
signed_div_rem(vm, ids, hint_ap_tracking) ==
    IF ~({"r", "biased_q", "range_check_ptr", "div", "value", "bound"} \subseteq DOMAIN ids)
    THEN Ran(HintErr("IncorrectIds", None), vm.memory)
    ELSE LET r_addr == address_of(vm, ids.r, hint_ap_tracking)
             biased_q_addr == address_of(vm, ids.biased_q, hint_ap_tracking)
             range_check_ptr_addr == address_of(vm, ids.range_check_ptr, hint_ap_tracking)
             div_addr == address_of(vm, ids.div, hint_ap_tracking)
             value_addr == address_of(vm, ids.value, hint_ap_tracking)
             bound_addr == address_of(vm, ids.bound, hint_ap_tracking)
             addrs == <<r_addr, biased_q_addr, range_check_ptr_addr, div_addr, value_addr,
                        bound_addr>>
             maybe_rel_div == memory_get(vm.memory, div_addr.addr.v)
             maybe_rel_value == memory_get(vm.memory, value_addr.addr.v)
             maybe_rel_bound == memory_get(vm.memory, bound_addr.addr.v)
             builtin == first_range_check(vm.builtin_runners)
             div == maybe_rel_div.v
             bound == maybe_rel_bound.v
             int_value == as_int(maybe_rel_value.v, vm.prime)
             qr == div_mod_floor(int_value, div)
         IN  IF \E i \in 1..6 : addrs[i].kind = "Panic" THEN Ran(HintPanic, vm.memory)
             ELSE IF \E i \in 1..6 : ~IsAddr(addrs[i])
             THEN Ran(HintErr("FailedToGetIds", None), vm.memory)
             ELSE IF None \in {maybe_rel_div, maybe_rel_value, maybe_rel_bound}
             THEN Ran(HintErr("FailedToGetIds", None), vm.memory)
             ELSE IF builtin = None THEN Ran(HintErr("NoRangeCheckBuiltin", None), vm.memory)
             ELSE IF maybe_rel_div.t # "int"
             THEN Ran(HintErr("ExpectedInteger", div_addr.addr.v), vm.memory)
             ELSE IF ~div_in_range(div, vm.prime, builtin.v.bound)
             THEN Ran(HintErr("OutOfValidRange", <<div, vm.prime \div builtin.v.bound>>),
                      vm.memory)
             ELSE IF maybe_rel_bound.t # "int"
             THEN Ran(HintErr("ExpectedInteger", bound_addr.addr.v), vm.memory)
             ELSE IF bound > builtin.v.bound \div 2
             THEN Ran(HintErr("OutOfValidRange", <<bound, builtin.v.bound \div 2>>), vm.memory)
             ELSE IF maybe_rel_value.t # "int"
             THEN Ran(HintErr("ExpectedInteger", value_addr.addr.v), vm.memory)
             ELSE IF (0 - bound) > qr.q \/ qr.q >= bound
             THEN Ran(HintErr("OutOfValidRange", <<qr.q, bound>>), vm.memory)
             ELSE insert_both(vm.memory, r_addr.addr.v, IntValue(qr.r),
                              biased_q_addr.addr.v, IntValue(qr.q + bound))

\* MaybeRelocatable::divmod by a positive integer: defined on integers only
divmod(value, div) ==
    IF value.t = "int"
    THEN [err |-> "Ok", q |-> IntValue(value.v \div div), r |-> IntValue(value.v % div)]
    ELSE [err |-> "NotImplemented", q |-> None, r |-> None]

\* unsigned_div_rem; its loop downcasts every builtin it visits before it looks at the
\* name, and ends at the first that is not a RangeCheckBuiltinRunner
unsigned_div_rem(vm, ids, hint_ap_tracking) ==
    IF ~({"r", "q", "div", "value"} \subseteq DOMAIN ids)
    THEN Ran(HintErr("IncorrectIds", None), vm.memory)
    ELSE LET r_addr == address_of(vm, ids.r, hint_ap_tracking)
             q_addr == address_of(vm, ids.q, hint_ap_tracking)
             div_addr == address_of(vm, ids.div, hint_ap_tracking)
             value_addr == address_of(vm, ids.value, hint_ap_tracking)
             addrs == <<r_addr, q_addr, div_addr, value_addr>>
             maybe_rel_div == memory_get(vm.memory, div_addr.addr.v)
             maybe_rel_value == memory_get(vm.memory, value_addr.addr.v)
             div == maybe_rel_div.v
             builtins == vm.builtin_runners
             ends == {i \in 1..Len(builtins) :
                         \/ builtins[i].runner # "RangeCheckBuiltinRunner"
                         \/ builtins[i].name = "range_check"}
             builtin == builtins[CHOOSE i \in ends : \A j \in ends : i <= j]
             qr == divmod(maybe_rel_value, div)
         IN  IF \E i \in 1..4 : addrs[i].kind = "Panic" THEN Ran(HintPanic, vm.memory)
             ELSE IF \E i \in 1..4 : ~IsAddr(addrs[i])
             THEN Ran(HintErr("FailedToGetIds", None), vm.memory)
             ELSE IF None \in {maybe_rel_div, maybe_rel_value}
             THEN Ran(HintErr("FailedToGetIds", None), vm.memory)
             ELSE IF maybe_rel_div.t # "int"
             THEN Ran(HintErr("ExpectedInteger", div_addr.addr.v), vm.memory)
             ELSE IF ends = {} \/ builtin.runner # "RangeCheckBuiltinRunner"
             THEN Ran(HintErr("NoRangeCheckBuiltin", None), vm.memory)
             ELSE IF ~div_in_range(div, vm.prime, builtin.bound)
             THEN Ran(HintErr("OutOfValidRange", <<div, vm.prime \div builtin.bound>>),
                      vm.memory)
             ELSE IF qr.err # "Ok" THEN Ran(HintErr(qr.err, None), vm.memory)
             ELSE insert_both(vm.memory, r_addr.addr.v, qr.r, q_addr.addr.v, qr.q)

(* BigInt beyond the integers of the checker.  The hints below shift by 128 and    *)
(* compare with 2^250: there a BigInt is written in two's complement as BigWidth   *)
(* limbs of 16 bits, the least significant first, wide enough that no sum or       *)
(* difference of the runs overflows.                                               *)

\* the number of 16-bit limbs of a BigInt
BigWidth == 17

RECURSIVE big_add_carry(_, _, _, _)
\* a + b + carry, from the limb i on
big_add_carry(a, b, carry, i) ==
    IF i > BigWidth THEN <<>>
    ELSE LET sum == a[i] + b[i] + carry
         IN  <<sum % Limb>> \o big_add_carry(a, b, sum \div Limb, i + 1)

\* a - b: a plus the complement of b plus one
big_sub(a, b) == big_add_carry(a, [i \in 1..BigWidth |-> (Limb - 1) - b[i]], 1, 1)

\* a < b: a - b is negative
big_lt(a, b) == big_sub(a, b)[BigWidth] >= Limb \div 2

\* bigint!(1).shl(k)
shl_one(k) == [i \in 1..BigWidth |-> IF i = (k \div 16) + 1 THEN 2 ^ (k % 16) ELSE 0]

\* a shift to the right that fills with zeros
shr_zero_fill(a, k) ==
    [i \in 1..BigWidth |-> IF i + k \div 16 <= BigWidth THEN a[i + k \div 16] ELSE 0]

\* BigInt::shr by a multiple of 16 bits: the shift rounds down, so it extends the sign
shr(a, k) ==
    [i \in 1..BigWidth |->
        IF i + k \div 16 <= BigWidth THEN a[i + k \div 16]
        ELSE IF a[BigWidth] >= Limb \div 2 THEN Limb - 1 ELSE 0]

\* a & b on BigInt: in two's complement
big_and(a, b) == [i \in 1..BigWidth |-> BitAnd(a[i], b[i])]

\* a mod_floor that leaves its argument as it is
big_mod_floor_none(a, p) == a

RECURSIVE big_mod_floor(_, _)
\* Integer::mod_floor by a positive p, for an a of a few times p
big_mod_floor(a, p) ==
    IF a[BigWidth] >= Limb \div 2 THEN big_mod_floor(big_add_carry(a, p, 0, 1), p)
    ELSE IF big_lt(a, p) THEN a
    ELSE big_mod_floor(big_sub(a, p), p)

\* as_int(value, prime): value < prime / 2, that is 2 * value + 1 < prime
big_as_int(value, vm_prime) ==
    IF big_lt(big_add_carry(value, value, 1, 1), vm_prime) THEN value
    ELSE big_sub(value, vm_prime)

\* split_felt
split_felt(vm, ids, hint_ap_tracking) ==
    IF ~({"high", "low", "value"} \subseteq DOMAIN ids)
    THEN Ran(HintErr("IncorrectIds", None), vm.memory)
    ELSE LET high_addr == address_of(vm, ids.high, hint_ap_tracking)
             low_addr == address_of(vm, ids.low, hint_ap_tracking)
             value_addr == address_of(vm, ids.value, hint_ap_tracking)
             addrs == <<high_addr, low_addr, value_addr>>
             maybe_rel_value == memory_get(vm.memory, value_addr.addr.v)
             value == maybe_rel_value.v
             low == big_and(value, big_sub(shl_one(128), shl_one(0)))
             high == shr(value, 128)
         IN  IF \E i \in 1..3 : addrs[i].kind = "Panic" THEN Ran(HintPanic, vm.memory)
             ELSE IF \E i \in 1..3 : ~IsAddr(addrs[i])
             THEN Ran(HintErr("FailedToGetIds", None), vm.memory)
             ELSE IF maybe_rel_value = None THEN Ran(HintErr("FailedToGetIds", None), vm.memory)
             ELSE IF maybe_rel_value.t # "int"
             THEN Ran(HintErr("ExpectedInteger", value_addr.addr.v), vm.memory)
             ELSE insert_both(vm.memory, low_addr.addr.v, IntValue(low),
                              high_addr.addr.v, IntValue(high))

\* assert_250_bit; int_value is not negative, so its div_rem by 2^128 is a shift and
\* a mask
assert_250_bit(vm, ids, hint_ap_tracking) ==
    IF ~({"value", "high", "low"} \subseteq DOMAIN ids)
    THEN Ran(HintErr("IncorrectIds", None), vm.memory)
    ELSE LET upper_bound == shl_one(250)
             shift == shl_one(128)
             value_addr == address_of(vm, ids.value, hint_ap_tracking)
             high_addr == address_of(vm, ids.high, hint_ap_tracking)
             low_addr == address_of(vm, ids.low, hint_ap_tracking)
             addrs == <<value_addr, high_addr, low_addr>>
             maybe_rel_value == memory_get(vm.memory, value_addr.addr.v)
             int_value == big_mod_floor(big_as_int(maybe_rel_value.v, vm.prime), vm.prime)
             high == shr(int_value, 128)
             low == big_and(int_value, big_sub(shift, shl_one(0)))
             first == insert(vm.memory, high_addr.addr.v, IntValue(high))
             second == insert(first.data, low_addr.addr.v, IntValue(low))
         IN  IF \E i \in 1..3 : addrs[i].kind = "Panic" THEN Ran(HintPanic, vm.memory)
             ELSE IF \E i \in 1..3 : ~IsAddr(addrs[i])
             THEN Ran(HintErr("FailedToGetIds", None), vm.memory)
             ELSE IF maybe_rel_value = None
             THEN Ran(HintErr("MemoryGet", value_addr.addr.v), vm.memory)
             ELSE IF maybe_rel_value.t # "int"
             THEN Ran(HintErr("ExpectedInteger", value_addr.addr.v), vm.memory)
             ELSE IF big_lt(upper_bound, int_value)
             THEN Ran(HintErr("ValueOutside250BitRange", int_value), vm.memory)
             ELSE IF first.err # "Ok" THEN Ran(HintErr("MemoryError", first.err), vm.memory)
             ELSE IF second.err # "Ok" THEN Ran(HintErr("MemoryError", second.err), first.data)
             ELSE Ran(HintOk, second.data)

\* assert_not_equal
assert_not_equal(vm, ids, hint_ap_tracking) ==
    IF ~({"a", "b"} \subseteq DOMAIN ids) THEN Ran(HintErr("IncorrectIds", None), vm.memory)
    ELSE LET a_addr == address_of(vm, ids.a, hint_ap_tracking)
             b_addr == address_of(vm, ids.b, hint_ap_tracking)
             maybe_rel_a == memory_get(vm.memory, a_addr.addr.v)
             maybe_rel_b == memory_get(vm.memory, b_addr.addr.v)
             res == IF "Panic" \in {a_addr.kind, b_addr.kind} THEN HintPanic
                    ELSE IF ~(IsAddr(a_addr) /\ IsAddr(b_addr))
                    THEN HintErr("FailedToGetIds", None)
                    ELSE IF maybe_rel_a = None \/ maybe_rel_b = None
                    THEN HintErr("FailedToGetIds", None)
                    ELSE IF maybe_rel_a.t = "int" /\ maybe_rel_b.t = "int"
                    THEN IF (maybe_rel_a.v - maybe_rel_b.v) % vm.prime = 0
                         THEN HintErr("AssertNotEqualFail", <<maybe_rel_a, maybe_rel_b>>)
                         ELSE HintOk
                    ELSE IF maybe_rel_a.t = "rel" /\ maybe_rel_b.t = "rel"
                    THEN IF maybe_rel_a.s # maybe_rel_b.s
                         THEN HintErr("DiffIndexComp", <<maybe_rel_a, maybe_rel_b>>)
                         ELSE IF maybe_rel_a.o = maybe_rel_b.o
                         THEN HintErr("AssertNotEqualFail", <<maybe_rel_a, maybe_rel_b>>)
                         ELSE HintOk
                    ELSE HintErr("DiffTypeComparison", <<maybe_rel_a, maybe_rel_b>>)
         IN  Ran(res, vm.memory)

\* assert_not_zero
assert_not_zero(vm, ids, hint_ap_tracking) ==
    IF "value" \notin DOMAIN ids THEN Ran(HintErr("IncorrectIds", None), vm.memory)
    ELSE LET value_addr == address_of(vm, ids.value, hint_ap_tracking)
             maybe_rel_value == memory_get(vm.memory, value_addr.addr.v)
             res == IF value_addr.kind = "Panic" THEN HintPanic
                    ELSE IF ~IsAddr(value_addr) THEN HintErr("FailedToGetReference", ids.value)
                    ELSE IF maybe_rel_value = None THEN HintErr("FailedToGetIds", None)
                    ELSE IF maybe_rel_value.t # "int"
                    THEN HintErr("ExpectedInteger", value_addr.addr.v)
                    ELSE IF maybe_rel_value.v % vm.prime = 0
                    THEN HintErr("AssertNotZero", <<maybe_rel_value.v, vm.prime>>)
                    ELSE HintOk
         IN  Ran(res, vm.memory)

\* split_int_assert_range
split_int_assert_range(vm, ids, hint_ap_tracking) ==
    IF "value" \notin DOMAIN ids THEN Ran(HintErr("IncorrectIds", None), vm.memory)
    ELSE LET value_addr == address_of(vm, ids.value, hint_ap_tracking)
             maybe_rel_value == memory_get(vm.memory, value_addr.addr.v)
             res == IF value_addr.kind = "Panic" THEN HintPanic
                    ELSE IF ~IsAddr(value_addr) THEN HintErr("FailedToGetReference", ids.value)
                    ELSE IF maybe_rel_value = None
                    THEN HintErr("MemoryGet", value_addr.addr.v)
                    ELSE IF maybe_rel_value.t # "int"
                    THEN HintErr("ExpectedInteger", value_addr.addr.v)
                    ELSE IF maybe_rel_value.v # 0 THEN HintErr("SplitIntNotZero", None)
                    ELSE HintOk
         IN  Ran(res, vm.memory)

\* an assert_lt_felt that leaves a mark at ap
assert_lt_felt_writes(vm, ids, hint_ap_tracking) ==
    Ran(HintOk, insert(vm.memory, vm.run_context.ap, IntValue(1)).data)

\* assert_lt_felt
assert_lt_felt(vm, ids, hint_ap_tracking) ==
    IF ~({"a", "b"} \subseteq DOMAIN ids) THEN Ran(HintErr("IncorrectIds", None), vm.memory)
    ELSE LET a_addr == address_of(vm, ids.a, hint_ap_tracking)
             b_addr == address_of(vm, ids.b, hint_ap_tracking)
             maybe_rel_a == memory_get(vm.memory, a_addr.addr.v)
             maybe_rel_b == memory_get(vm.memory, b_addr.addr.v)
             res == IF "Panic" \in {a_addr.kind, b_addr.kind} THEN HintPanic
                    ELSE IF ~(IsAddr(a_addr) /\ IsAddr(b_addr))
                    THEN HintErr("FailedToGetIds", None)
                    ELSE IF maybe_rel_a.t = "int" /\ maybe_rel_b.t = "int"
                    THEN IF mod_floor(maybe_rel_a.v, vm.prime) < mod_floor(maybe_rel_b.v, vm.prime)
                         THEN HintOk
                         ELSE HintErr("AssertLtFelt", <<maybe_rel_a.v, maybe_rel_b.v>>)
                    ELSE IF maybe_rel_a.t = "rel"
                    THEN HintErr("ExpectedInteger", a_addr.addr.v)
                    ELSE IF maybe_rel_b.t = "rel"
                    THEN HintErr("ExpectedInteger", b_addr.addr.v)
                    ELSE HintErr("FailedToGetIds", None)
         IN  Ran(res, vm.memory)

----------------------------------------------------------------------------
(* The memory and the segment manager as a state machine *)

\* the addresses writes are made at
Addrs == {Rel(s, o) : s \in 0..(MaxSegments - 1), o \in 0..MaxOffset}

\* the values insert is called with
Values == {IntValue(n) : n \in IntValues}

\* the vectors load_data is called with
DataSamples == {<<>>} \cup {<<v>> : v \in Values} \cup {<<IntValue(4), IntValue(5)>>}

\* the values of run_context.ap
ApSamples == {Rel(0, 0)}

\* the registers relocate_trace_register is called with
Registers == {Rel(s, o) : s \in 0..MaxSegments, o \in 0..MaxOffset}

\* the decoder at rest
DecIdle ==
    /\ encoded_instr = <<0, 0, 0, 0>>
    /\ imm = None
    /\ decoded = [kind |-> "idle"]

\* no reference resolved yet
RefIdle ==
    /\ pc = Rel(0, 0)
    /\ fp = Rel(0, 0)
    /\ reference = None
    /\ tracking = None
    /\ overflow_checks = FALSE
    /\ resolved = [kind |-> "idle", err |-> "", base |-> None, addr |-> None]

\* no hint ran yet
HintIdle ==
    /\ prime = 5
    /\ builtin_runners = <<>>
    /\ references = <<>>
    /\ hint_ids = [none |-> 0]
    /\ hint_code = "none"
    /\ hint_res = [err |-> "idle", val |-> None]

\* MemorySegmentManager::new, Memory::new
Init ==
    /\ data = <<>>
    /\ num_segments = 0
    /\ segment_used_sizes = None
    /\ ap \in ApSamples
    /\ relocation_table = None
    /\ last_op = "new"
    /\ last_res = Ok(None)
    /\ written = {}
    /\ stale = FALSE
    /\ bases = <<>>
    /\ DecIdle
    /\ RefIdle
    /\ HintIdle

\* history: whether this step changes memory or segments after the sizes were computed
StaleAfter(mem, num) ==
    stale \/ (segment_used_sizes # None /\ (mem # data \/ num # num_segments))

\* segments.add(&mut memory, None)
Add ==
    /\ num_segments < MaxSegments
    /\ LET r == add(num_segments, data)
       IN  /\ data' = r.data
           /\ num_segments' = r.num_segments
           /\ last_op' = "add"
           /\ last_res' = Ok(r.base)
           /\ stale' = StaleAfter(r.data, r.num_segments)
           /\ bases' = Append(bases, r.base)
    /\ UNCHANGED <<segment_used_sizes, ap, relocation_table, written, decvars, refvars, hintvars>>

\* memory.insert(key, val)
Insert(key, val) ==
    /\ LET r == insert(data, key, val)
       IN  /\ Cardinality(Cells(r.data)) <= MaxWrites
           /\ data' = r.data
           /\ last_op' = "insert"
           /\ last_res' = IF r.err = "Ok" THEN Ok(None) ELSE Err(r.err)
           /\ written' = IF r.err = "Ok" THEN written \cup {key} ELSE written
           /\ stale' = StaleAfter(r.data, num_segments)
    /\ UNCHANGED <<num_segments, segment_used_sizes, ap, relocation_table, bases,
                   decvars, refvars, hintvars>>

\* segments.load_data(&mut memory, ptr, values)
LoadData(ptr, values) ==
    /\ ptr.o + Len(values) <= MaxOffset + 1
    /\ LET r == load_data(data, ptr, values)
       IN  /\ Cardinality(Cells(r.data)) <= MaxWrites
           /\ data' = r.data
           /\ last_op' = "load_data"
           /\ last_res' = r.res
           /\ written' = written \cup {add_usize_mod(ptr, i) : i \in 0..(r.num - 1)}
           /\ stale' = StaleAfter(r.data, num_segments)
    /\ UNCHANGED <<num_segments, segment_used_sizes, ap, relocation_table, bases,
                   decvars, refvars, hintvars>>

\* the hint add_segment(vm)
AddSegment ==
    /\ num_segments < MaxSegments
    /\ LET r == add_segment(num_segments, data, ap)
       IN  /\ Cardinality(Cells(r.data)) <= MaxWrites
           /\ data' = r.data
           /\ num_segments' = r.num_segments
           /\ last_op' = "add_segment"
           /\ last_res' = r.res
           /\ written' = IF r.res.err = "Ok" THEN written \cup {ap} ELSE written
           /\ stale' = StaleAfter(r.data, r.num_segments)
           /\ bases' = Append(bases, r.new_segment_base)
    /\ UNCHANGED <<segment_used_sizes, ap, relocation_table, decvars, refvars, hintvars>>

\* segments.compute_effective_sizes(&memory)
ComputeEffectiveSizes ==
    /\ segment_used_sizes' = compute_effective_sizes(segment_used_sizes, data)
    /\ last_op' = "compute_effective_sizes"
    /\ last_res' = Ok(None)
    /\ UNCHANGED <<data, num_segments, ap, relocation_table, written, stale, bases,
                   decvars, refvars, hintvars>>

\* segments.relocate_segments()
RelocateSegments ==
    /\ LET r == relocate_segments(segment_used_sizes)
       IN  /\ last_op' = "relocate_segments"
           /\ last_res' = r
           /\ relocation_table' = IF r.err = "Ok" THEN Some(r.val) ELSE relocation_table
    /\ UNCHANGED <<data, num_segments, segment_used_sizes, ap, written, stale, bases,
                   decvars, refvars, hintvars>>

\* relocate_trace_register(value, &relocation_table)
RelocateTraceRegister(value) ==
    /\ relocation_table # None
    /\ last_op' = "relocate_trace_register"
    /\ last_res' = relocate_trace_register(value, relocation_table.v)
    /\ UNCHANGED <<data, num_segments, segment_used_sizes, ap, relocation_table,
                   written, stale, bases, decvars, refvars, hintvars>>

\* the run: segments are added and cells written, directly and by the add_segment hint
Next ==
    \/ Add
    \/ \E key \in Addrs, val \in Values : Insert(key, val)
    \/ \E ptr \in Addrs, values \in DataSamples : LoadData(ptr, values)
    \/ AddSegment

Spec == Init /\ [][Next]_vars

\* the value the cells of the relocation runs are written with
RelocValue == IntValue(4)

\* the run and its relocation, in any order: segments are added and cells written as
\* the tests of compute_effective_sizes do (add, insert); the sizes are computed, the
\* table is built and registers are relocated
NextReloc ==
    \/ Add
    \/ \E key \in Addrs : Insert(key, RelocValue)
    \/ ComputeEffectiveSizes
    \/ RelocateSegments
    \/ \E value \in Registers : RelocateTraceRegister(value)

SpecReloc == Init /\ [][NextReloc]_vars

----------------------------------------------------------------------------
(* The decoder applied to a word *)

\* the memory and the manager at rest
MemIdle ==
    /\ data = <<>>
    /\ num_segments = 0
    /\ segment_used_sizes = None
    /\ ap = Rel(0, 0)
    /\ relocation_table = None
    /\ last_op = "new"
    /\ last_res = Ok(None)
    /\ written = {}
    /\ stale = FALSE
    /\ bases = <<>>

InitDec == MemIdle /\ DecIdle /\ RefIdle /\ HintIdle

\* decode_instruction(word, immediate)
DecodeInstruction(word, immediate) ==
    /\ decoded.kind = "idle"
    /\ encoded_instr' = word
    /\ imm' = immediate
    /\ decoded' = decode_instruction(word, immediate)
    /\ UNCHANGED <<memvars, refvars, hintvars>>

\* the immediates given: none, and the 7 of the decoder's tests
ImmSamples == {None, Some(7)}

\* the offset fields of the decoder's tests: 0x8000 three times, and 0x7FFF 0x8000 0x8001
OffsetSamples == {<<32768, 32768, 32768>>, <<32767, 32768, 32769>>}

\* every value of the flags limb, reserved bit included, over the sampled offsets
FlagWords == {<<o[1], o[2], o[3], f>> : o \in OffsetSamples, f \in 0..(Limb - 1)}

NextDec ==
    /\ decoded.kind = "idle"
    /\ \E word \in FlagWords, immediate \in ImmSamples : DecodeInstruction(word, immediate)

SpecDec == InitDec /\ [][NextDec]_vars

\* what the rest of the word holds while one offset field takes every value: the other
\* two offset fields, and the flags (0x14A7 of the tests, and 0x4200 with the reserved
\* bit set)
Backgrounds == {<<0, 5287>>, <<65535, 49664>>}

\* the word with x in offset field k, b in the other two offset fields and the flags f
OffsetWord(k, x, b, f) == [i \in 1..4 |-> IF i = 4 THEN f ELSE IF i = k THEN x ELSE b]

\* every value of one offset field, the other two at a background value
NextOff ==
    /\ decoded.kind = "idle"
    /\ \E k \in 1..3, x \in 0..(Limb - 1), b \in Backgrounds :
          DecodeInstruction(OffsetWord(k, x, b[1], b[2]), Some(7))

SpecOff == InitDec /\ [][NextOff]_vars

----------------------------------------------------------------------------
(* Reference resolution applied to a reference *)

\* the largest offset of ap and fp
MaxRegOffset == 1

\* the largest offset of an ApTracking
MaxTrackOffset == 1

\* the largest magnitude of the small offset1 and offset2
MaxRefOffset == 2

\* the memory the references are resolved in: two segments, (1, 0) holding the address
\* (0, 1) and (1, 1) holding the integer 4, the cells after them missing
RefMemory ==
    LET m1 == add(0, <<>>)
        m2 == add(m1.num_segments, m1.data)
        m3 == insert(m2.data, Rel(1, 0), Rel(0, 1))
    IN  insert(m3.data, Rel(1, 1), IntValue(4)).data

\* the values of run_context.ap and run_context.fp: addresses in segment 1
RegSamples == {Rel(1, o) : o \in 0..MaxRegOffset}

\* the ApTracking records
Trackings == [group : {0, 1}, offset : 0..MaxTrackOffset]

\* a tracking record, or none
TrackingSamples == {None} \cup {Some(t) : t \in Trackings}

\* offset1 and offset2: the small offsets and the two ends of i32
RefOffsets == ((-MaxRefOffset)..MaxRefOffset) \cup {MinI32, MaxI32}

\* the references
HintReferences ==
    [register : {"AP", "FP"}, offset1 : RefOffsets, offset2 : RefOffsets,
     inner_dereference : BOOLEAN, ap_tracking_data : TrackingSamples]

\* the run stopped at a hint: the memory written, ap and fp in the execution segment
InitRef ==
    /\ data = RefMemory
    /\ num_segments = 2
    /\ segment_used_sizes = None
    /\ ap \in RegSamples
    /\ relocation_table = None
    /\ last_op = "insert"
    /\ last_res = Ok(None)
    /\ written = {Rel(1, 0), Rel(1, 1)}
    /\ stale = FALSE
    /\ bases = <<Rel(0, 0), Rel(1, 0)>>
    /\ DecIdle
    /\ pc = Rel(0, 0)
    /\ fp \in RegSamples
    /\ reference = None
    /\ tracking = None
    /\ overflow_checks = FALSE
    /\ resolved = [kind |-> "idle", err |-> "", base |-> None, addr |-> None]
    /\ HintIdle

\* compute_addr_from_reference(hint_reference, run_context, vm, hint_ap_tracking)
ComputeAddrFromReference(hint_reference, hint_ap_tracking, checks) ==
    /\ resolved.kind = "idle"
    /\ reference' = hint_reference
    /\ tracking' = hint_ap_tracking
    /\ overflow_checks' = checks
    /\ resolved' = compute_addr_from_reference(hint_reference, ap, fp, data,
                                                hint_ap_tracking, checks)
    /\ UNCHANGED <<memvars, decvars, pc, fp, hintvars>>

NextRef ==
    /\ resolved.kind = "idle"
    /\ \E hint_reference \in HintReferences, hint_ap_tracking \in TrackingSamples,
          checks \in BOOLEAN :
          ComputeAddrFromReference(hint_reference, hint_ap_tracking, checks)

SpecRef == InitRef /\ [][NextRef]_vars

----------------------------------------------------------------------------
(* A hint applied to a virtual machine *)

\* the largest magnitude of an integer a hint reads
MaxHintInt == 10

\* the largest bound of the range_check builtin
MaxRcBound == 4

\* the values of vm.prime
HintPrimes == {5, 7}

\* the cell the hint's operand is read from
OperandAddr == Rel(1, 0)

\* what the operand cell holds: an integer, an address, or nothing
OperandSamples == {IntValue(n) : n \in (-MaxHintInt)..MaxHintInt} \cup {Rel(0, 0), None}

\* the memory of a run stopped at a hint: two segments, the operand at (1, 0)
HintMemory(operand) ==
    LET m1 == add(0, <<>>)
        m2 == add(m1.num_segments, m1.data)
    IN  IF operand = None THEN m2.data ELSE insert(m2.data, OperandAddr, operand).data

\* the builtins of a run
OutputBuiltin == [name |-> "output", runner |-> "OutputBuiltinRunner", bound |-> 0]

RangeCheckBuiltin(b) == [name |-> "range_check", runner |-> "RangeCheckBuiltinRunner", bound |-> b]

\* vm.builtin_runners: none, output only, and range_check alone, after and before output
BuiltinSamples ==
    {<<>>, <<OutputBuiltin>>}
    \cup UNION {{<<RangeCheckBuiltin(b)>>, <<OutputBuiltin, RangeCheckBuiltin(b)>>,
                 <<RangeCheckBuiltin(b), OutputBuiltin>>} : b \in 1..MaxRcBound}

\* vm.references: id 0 is [fp]
HintRefs ==
    <<[register |-> "FP", offset1 |-> 0, offset2 |-> 0, inner_dereference |-> FALSE,
       ap_tracking_data |-> None]>>

\* the ids of a hint on `a`: the reference 0, a reference the program lacks, and ids
\* that do not hold `a`
IdsSamples == {[a |-> 0], [a |-> 1], [b |-> 0]}

\* the run stopped at a hint
InitHint ==
    /\ \E operand \in OperandSamples :
          /\ data = HintMemory(operand)
          /\ written = IF operand = None THEN {} ELSE {OperandAddr}
    /\ num_segments = 2
    /\ segment_used_sizes = None
    /\ ap = Rel(1, 1)
    /\ relocation_table = None
    /\ last_op = "insert"
    /\ last_res = Ok(None)
    /\ stale = FALSE
    /\ bases = <<Rel(0, 0), Rel(1, 0)>>
    /\ DecIdle
    /\ pc = Rel(0, 0)
    /\ fp = Rel(1, 0)
    /\ reference = None
    /\ tracking = None
    /\ overflow_checks = FALSE
    /\ resolved = [kind |-> "idle", err |-> "", base |-> None, addr |-> None]
    /\ prime \in HintPrimes
    /\ builtin_runners \in BuiltinSamples
    /\ references = HintRefs
    /\ hint_ids = [none |-> 0]
    /\ hint_code = "none"
    /\ hint_res = [err |-> "idle", val |-> None]

\* assert_nn(vm, ids, hint_ap_tracking)
AssertNn(ids) ==
    /\ hint_code = "none"
    /\ hint_ids' = ids
    /\ hint_code' = "assert_nn"
    /\ hint_res' = assert_nn(ids, references, ap, fp, data, builtin_runners, prime,
                              tracking, overflow_checks)
    /\ UNCHANGED <<memvars, decvars, refvars, prime, builtin_runners, references>>

NextHint ==
    /\ hint_code = "none"
    /\ \E ids \in IdsSamples : AssertNn(ids)

SpecHint == InitHint /\ [][NextHint]_vars

----------------------------------------------------------------------------
(* The hints of the math library applied to a virtual machine *)

\* the virtual machine a hint is given
VM ==
    [references |-> references, run_context |-> [pc |-> pc, ap |-> ap, fp |-> fp],
     memory |-> data, builtin_runners |-> builtin_runners, prime |-> prime,
     overflow_checks |-> overflow_checks]

\* vm.references: id i is [fp + i]
FpRefs ==
    [i \in 1..5 |-> [register |-> "FP", offset1 |-> i - 1, offset2 |-> 0,
                     inner_dereference |-> FALSE, ap_tracking_data |-> None]]

\* the memory of a run with the cells of segment 1 written from offset i - 1 on
RECURSIVE WriteCells(_, _, _)
WriteCells(mem, cells, i) ==
    IF i > Len(cells) THEN mem
    ELSE WriteCells(IF cells[i] = None THEN mem
                    ELSE insert(mem, Rel(1, i - 1), cells[i]).data, cells, i + 1)

\* the run stopped at a hint: fp = (1, 0) and the cells from fp on hold `cells`
HintStopped(cells) ==
    /\ data = WriteCells(HintMemory(None), cells, 1)
    /\ written = {Rel(1, i - 1) : i \in {j \in 1..Len(cells) : cells[j] # None}}
    /\ num_segments = 2
    /\ segment_used_sizes = None
    /\ ap = Rel(1, Len(cells))
    /\ relocation_table = None
    /\ last_op = "insert"
    /\ last_res = Ok(None)
    /\ stale = FALSE
    /\ bases = <<Rel(0, 0), Rel(1, 0)>>
    /\ DecIdle
    /\ pc = Rel(0, 0)
    /\ fp = Rel(1, 0)
    /\ reference = None
    /\ tracking = None
    /\ overflow_checks = FALSE
    /\ resolved = [kind |-> "idle", err |-> "", base |-> None, addr |-> None]
    /\ builtin_runners \in BuiltinSamples
    /\ references = FpRefs
    /\ hint_ids = [none |-> 0]
    /\ hint_code = "none"
    /\ hint_res = [err |-> "idle", val |-> None]

\* a hint runs: it returns its result and leaves its memory
RunHint(code, ids, ran) ==
    /\ hint_code = "none"
    /\ hint_ids' = ids
    /\ hint_code' = code
    /\ hint_res' = ran.res
    /\ data' = ran.memory
    /\ written' = written \cup (Cells(ran.memory) \ Cells(data))
    /\ stale' = StaleAfter(ran.memory, num_segments)
    /\ UNCHANGED <<num_segments, segment_used_sizes, ap, relocation_table, last_op,
                   last_res, bases, decvars, refvars, prime, builtin_runners, references>>

\* the largest magnitude of an integer a comparison hint reads
MaxCmpInt == 6

\* the run stopped at a comparison hint: a (or value) at fp, b at fp + 1, and
\* small_inputs, unset or set, at fp + 2
InitCmp ==
    LET operands == {IntValue(n) : n \in (-MaxCmpInt)..MaxCmpInt} \cup {Rel(0, 0), None}
    IN  /\ prime \in HintPrimes
        /\ \E a \in operands, b \in operands,
              small_inputs \in {None, IntValue(0), IntValue(1)} :
              HintStopped(<<a, b, small_inputs>>)

\* assert_le_felt(vm, ids, hint_ap_tracking)
AssertLeFelt(ids) == RunHint("assert_le_felt", ids, assert_le_felt(VM, ids, tracking))

\* assert_not_equal(vm, ids, hint_ap_tracking)
AssertNotEqual(ids) == RunHint("assert_not_equal", ids, assert_not_equal(VM, ids, tracking))

\* assert_not_zero(vm, ids, hint_ap_tracking)
AssertNotZero(ids) == RunHint("assert_not_zero", ids, assert_not_zero(VM, ids, tracking))

\* split_int_assert_range(vm, ids, hint_ap_tracking)
SplitIntAssertRange(ids) ==
    RunHint("split_int_assert_range", ids, split_int_assert_range(VM, ids, tracking))

\* assert_lt_felt(vm, ids, hint_ap_tracking)
AssertLtFelt(ids) == RunHint("assert_lt_felt", ids, assert_lt_felt(VM, ids, tracking))

NextCmp ==
    /\ hint_code = "none"
    /\ \/ \E ids \in {[a |-> 0, b |-> 1, small_inputs |-> 2], [a |-> 0, b |-> 1]} :
             AssertLeFelt(ids)
       \/ \E ids \in {[a |-> 0]} : AssertNn(ids)
       \/ \E ids \in {[a |-> 0, b |-> 1], [a |-> 0]} : AssertNotEqual(ids)
       \/ \E ids \in {[value |-> 0]} : AssertNotZero(ids)
       \/ \E ids \in {[value |-> 0]} : SplitIntAssertRange(ids)
       \/ \E ids \in {[a |-> 0, b |-> 1]} : AssertLtFelt(ids)

SpecCmp == InitCmp /\ [][NextCmp]_vars

\* the largest magnitude of an integer a division hint reads as its value
MaxDivInt == 5

\* the largest divisor, base or bound a division hint reads
MaxDivisor == 3

\* the run stopped at a division hint: value at fp, div (or base) at fp + 1, bound at
\* fp + 2, and two cells for what the hint writes at fp + 3 and fp + 4, unset or set;
\* fp + 3 may hold the address of fp + 4
InitDiv ==
    LET values == {IntValue(n) : n \in (-MaxDivInt)..MaxDivInt} \cup {Rel(0, 0), None}
        divisors == {IntValue(n) : n \in (-2)..MaxDivisor} \cup {Rel(0, 0)}
        bounds == {IntValue(n) : n \in 0..MaxDivisor} \cup {Rel(0, 0)}
    IN  /\ prime \in HintPrimes
        /\ \E value \in values, div \in divisors, bound \in bounds,
              out1 \in {None, IntValue(1), Rel(1, 4)}, out2 \in {None, IntValue(1)} :
              HintStopped(<<value, div, bound, out1, out2>>)

\* split_int(vm, ids, hint_ap_tracking)
SplitInt(ids) == RunHint("split_int", ids, split_int(VM, ids, tracking))

\* signed_div_rem(vm, ids, hint_ap_tracking)
SignedDivRem(ids) == RunHint("signed_div_rem", ids, signed_div_rem(VM, ids, tracking))

\* unsigned_div_rem(vm, ids, hint_ap_tracking)
UnsignedDivRem(ids) == RunHint("unsigned_div_rem", ids, unsigned_div_rem(VM, ids, tracking))

NextDiv ==
    /\ hint_code = "none"
    /\ \/ \E ids \in {[value |-> 0, base |-> 1, bound |-> 2, output |-> 3],
                      [value |-> 0, base |-> 1, bound |-> 2]} : SplitInt(ids)
       \/ \E ids \in {[value |-> 0, div |-> 1, bound |-> 2, r |-> 3, biased_q |-> 4,
                       range_check_ptr |-> 0]} : SignedDivRem(ids)
       \/ \E ids \in {[value |-> 0, div |-> 1, r |-> 3, q |-> 4]} : UnsignedDivRem(ids)

SpecDiv == InitDiv /\ [][NextDiv]_vars

\* the run stopped at split_felt or assert_250_bit: value at fp and two cells for
\* what the hint writes, unset or set.  vm.prime is the Cairo prime
\* 2^251 + 17 * 2^192 + 1 or the prime 2^255 - 19; value is around 0, 2^128, 2^250
\* and the prime, of either sign, or an address
InitFelt ==
    LET big(limbs) == [i \in 1..BigWidth |-> IF i <= Len(limbs) THEN limbs[i] ELSE 0]
        plus(a, b) == big_add_carry(a, b, 0, 1)
        zero == big(<<>>)
        cairo_prime ==
            plus(plus(shl_one(251), big(<<0, 0, 0, 0, 0, 0, 0, 0, 0, 0, 0, 0, 17>>)), shl_one(0))
        marks == {zero, shl_one(128), shl_one(250), prime,
                  big(<<1, 2, 3, 4, 5, 6, 7, 8, 9, 10, 11, 12, 13, 14, 15>>)}
        near == UNION {{big_sub(m, big(<<1>>)), m, plus(m, big(<<5>>))} : m \in marks}
        values == {IntValue(n) : n \in near \cup {big_sub(zero, m) : m \in near}}
        outs == {None, IntValue(zero)}
    IN  /\ prime \in {cairo_prime, big_sub(shl_one(255), big(<<19>>))}
        /\ \E value \in values \cup {Rel(0, 0), None}, out1 \in outs, out2 \in outs :
              HintStopped(<<value, out1, out2>>)

\* split_felt(vm, ids, hint_ap_tracking)
SplitFelt(ids) == RunHint("split_felt", ids, split_felt(VM, ids, tracking))

\* assert_250_bit(vm, ids, hint_ap_tracking)
Assert250Bit(ids) == RunHint("assert_250_bit", ids, assert_250_bit(VM, ids, tracking))

NextFelt ==
    /\ hint_code = "none"
    /\ \/ \E ids \in {[value |-> 0, low |-> 1, high |-> 2], [value |-> 0, low |-> 1]} :
             SplitFelt(ids)
       \/ \E ids \in {[value |-> 0, high |-> 1, low |-> 2], [value |-> 0, high |-> 1]} :
             Assert250Bit(ids)

SpecFelt == InitFelt /\ [][NextFelt]_vars

----------------------------------------------------------------------------
(* Claims about the memory and the segment manager *)

\* a write rejected because the cell holds another value
IsInconsistentMemory(res) ==
    \/ res.err = "InconsistentMemory"
    \/ res.err = "MemoryError" /\ res.val = "InconsistentMemory"

\* some element of values meets a cell that holds another value
Conflicts(ptr, values) ==
    \E i \in 1..Len(values) : get(data, add_usize_mod(ptr, i - 1)) \notin {None, values[i]}

\* every element of values meets a cell that holds that value
AllPresent(ptr, values) ==
    \A i \in 1..Len(values) : get(data, add_usize_mod(ptr, i - 1)) = values[i]

\* what C1 says of insert(key, val) at a cell that holds a value
C1_Insert(key, val) ==
    IF get(data, key) = val
    THEN last_res'.err = "Ok" /\ data' = data
    ELSE IsInconsistentMemory(last_res') /\ get(data', key) = get(data, key)

\* what C1 says of load_data(ptr, values)
C1_LoadData(ptr, values) ==
    /\ Conflicts(ptr, values) => IsInconsistentMemory(last_res')
    /\ AllPresent(ptr, values) => last_res'.err = "Ok" /\ data' = data

\* (the consequent is written first: TLC then evaluates the action only where it fails)
C1_Step ==
    /\ \A a \in Cells(data) : get(data', a) = get(data, a)
    /\ last_op' = "insert" =>
          \A key \in Cells(data), val \in Values :
              C1_Insert(key, val) \/ ~Insert(key, val)
    /\ last_op' = "load_data" =>
          \A ptr \in Addrs, values \in DataSamples :
              C1_LoadData(ptr, values) \/ ~LoadData(ptr, values)
    /\ (last_op' = "add_segment" /\ get(data, ap) # None) =>
          \/ IF get(data, ap) = Rel(num_segments, 0)
             THEN last_res'.err = "Ok"
             ELSE IsInconsistentMemory(last_res') /\ get(data', ap) = get(data, ap)
          \/ ~AddSegment

\* C1: a cell that holds V1 keeps V1 in every step; writing V2 # V1 to it fails with
\* the memory error InconsistentMemory, and writing V1 to it again succeeds and leaves
\* memory unchanged; this for insert, load_data and the add_segment hint.
C1_WriteOnce == [][C1_Step]_vars

\* a second insert at a set cell, with another value, has failed
C1_Witness ==
    /\ last_op = "insert"
    /\ last_res.err = "InconsistentMemory"
    /\ written # {}

\* 1 + the largest offset written in segment s, 0 when nothing was written in it
UsedSize(s) ==
    LET offsets == {a.o : a \in {w \in written : w.s = s}}
    IN  IF offsets = {} THEN 0
        ELSE 1 + CHOOSE o \in offsets : \A p \in offsets : p <= o

IsRelocationTable(T, n) ==
    /\ Len(T) = n
    /\ Len(T) >= 1 => T[1] = 1
    /\ \A i \in 1..(Len(T) - 1) : T[i + 1] = T[i] + segment_used_sizes.v[i]

\* relocate_segments called before compute_effective_sizes
C3_NotCalled ==
    (last_op = "relocate_segments" /\ segment_used_sizes = None) =>
        last_res = Err("EffectiveSizesNotCalled")

Flat(c) == relocate_trace_register(c, relocation_table.v)

\* C4: under the table produced after the run, every written cell (s, o) is flattened
\* to T[s] + o and no two distinct written cells share a flat address.
C4_Relocation ==
    (relocation_table # None /\ ~stale) =>
        /\ \A c \in written :
              /\ Flat(c).err = "Ok"
              /\ Flat(c).val = relocation_table.v[c.s + 1] + c.o
        /\ \A c1, c2 \in written : c1 # c2 => Flat(c1).val # Flat(c2).val

\* a table for two segments, each written, the first with a gap below its cell
C4_Witness ==
    /\ relocation_table # None
    /\ ~stale
    /\ Rel(0, 1) \in written
    /\ Rel(0, 0) \notin written
    /\ Rel(1, 0) \in written

\* C5: relocate_trace_register((s, o), T) returns T[s] + o when s < len(T) and fails
\* with NoRelocationFound, returning no address, when T has no entry for s.
C5_RelocateTraceRegister ==
    [][\A value \in Registers :
          RelocateTraceRegister(value) =>
              IF value.s < Len(relocation_table.v)
              THEN last_res' = Ok(relocation_table.v[value.s + 1] + value.o)
              ELSE last_res' = Err("NoRelocationFound")]_vars

\* a register of the second segment was relocated above that segment's base
C5_Witness ==
    /\ last_op = "relocate_trace_register"
    /\ last_res.err = "Ok"
    /\ relocation_table # None
    /\ Len(relocation_table.v) = 2
    /\ last_res.val > relocation_table.v[2]

----------------------------------------------------------------------------
(* Claims about the decoder *)

\* the 16-bit field that holds the offset x
Bias(x) == (x + 2 ^ 15) % (2 ^ 16)

\* C6: for every x in [-2^15, 2^15 - 1], a word whose offset field holds
\* (x + 2^15) mod 2^16 decodes to the offset x, for off0, off1 and off2, whatever the
\* other offset fields and the flags hold.
C6_Offsets ==
    decoded.kind # "idle" =>
        /\ decoded.kind = "Ok"
        /\ \A k \in 1..3 :
              LET x == <<decoded.inst.off0, decoded.inst.off1, decoded.inst.off2>>[k]
              IN  /\ x \in (-(2 ^ 15))..(2 ^ 15 - 1)
                  /\ Bias(x) = encoded_instr[k]

\* off1 holds 0x7FFF and decodes to -1 between two fields that decode to 2^15 - 1
C6_Witness ==
    /\ decoded.kind = "Ok"
    /\ encoded_instr[2] = 32767
    /\ decoded.inst.off1 = -1
    /\ decoded.inst.off0 = 32767
    /\ decoded.inst.off2 = 32767
    /\ encoded_instr[4] = 49664

\* bits off .. off + width - 1 of the flags limb of the word decoded
Field(off, width) == (encoded_instr[4] \div (2 ^ off)) % (2 ^ width)

\* the flag fields of the word decoded
FOp1Src == Field(2, 3)

FResLogic == Field(5, 2)

FPcUpdate == Field(7, 3)

FApUpdate == Field(10, 2)

FOpcode == Field(12, 3)

\* the encodings of op1_src, pc_update and opcode
Encodings == {0, 1, 2, 4}

\* some flag field holds no encoding
AnyInvalid ==
    \/ FOp1Src \notin Encodings
    \/ FPcUpdate \notin Encodings
    \/ FResLogic = 3
    \/ FOpcode \notin Encodings
    \/ FApUpdate = 3

\* op1_src = IMM and no immediate was given
MissingImm == FOp1Src = 1 /\ imm = None

\* the error names a field that is invalid and carries that field's value
NamesInvalidField(r) ==
    \/ r.err = "InvalidOp1Reg" /\ r.val = FOp1Src /\ FOp1Src \notin Encodings
    \/ r.err = "InvalidPcUpdate" /\ r.val = FPcUpdate /\ FPcUpdate \notin Encodings
    \/ r.err = "InvalidRes" /\ r.val = FResLogic /\ FResLogic = 3
    \/ r.err = "InvalidOpcode" /\ r.val = FOpcode /\ FOpcode \notin Encodings
    \/ r.err = "InvalidApUpdate" /\ r.val = FApUpdate /\ FApUpdate = 3

\* the error of the first invalid field, in the order the fields are matched
FirstInvalid ==
    IF FOp1Src \notin Encodings THEN DecErr("InvalidOp1Reg", FOp1Src)
    ELSE IF FPcUpdate \notin Encodings THEN DecErr("InvalidPcUpdate", FPcUpdate)
    ELSE IF FResLogic = 3 THEN DecErr("InvalidRes", FResLogic)
    ELSE IF FOpcode \notin Encodings THEN DecErr("InvalidOpcode", FOpcode)
    ELSE DecErr("InvalidApUpdate", FApUpdate)

\* C7 as stated: whenever a flag field is invalid, decode_instruction returns an error
\* that carries the offending field's value, and no Instruction.
C7_Original ==
    (decoded.kind # "idle" /\ AnyInvalid) =>
        decoded.kind = "Err" /\ NamesInvalidField(decoded)

\* C7 amended: whenever a flag field is invalid, decode_instruction returns the error
\* of the first invalid field in the order op1_src, pc_update, res_logic, opcode,
\* ap_update, carrying that field's value, and no Instruction; except that with
\* op1_src = 1 (IMM) and no immediate given it panics before the later fields are
\* matched and returns neither an error nor an Instruction.
C7_InvalidFields ==
    decoded.kind # "idle" =>
        /\ MissingImm => decoded = DecPanic
        /\ (AnyInvalid /\ ~MissingImm) => decoded = FirstInvalid
        /\ decoded.kind = "Err" => AnyInvalid

\* ap_update = 3, matched last, is reported with its value after every other field passed
C7_Witness ==
    /\ decoded = DecErr("InvalidApUpdate", 3)
    /\ FOp1Src = 1
    /\ imm # None
    /\ FPcUpdate = 4
    /\ FOpcode = 4

\* every flag field holds an encoding
AllValid == ~AnyInvalid

\* the names of the encodings 0, 1, 2, 4
Name4(n, n0, n1, n2, n4) ==
    IF n = 0 THEN n0 ELSE IF n = 1 THEN n1 ELSE IF n = 2 THEN n2 ELSE n4

\* C8: for every word whose flag fields are all valid, the Instruction decoded has
\* dst_reg = FP iff flag bit 0 is 1, op0_reg = FP iff flag bit 1 is 1, op1_src
\* 0/1/2/4 -> OP0/IMM/FP/AP, pc_update 0/1/2/4 -> REGULAR/JUMP/JUMP_REL/JNZ, opcode
\* 0/1/2/4 -> NOP/CALL/RET/ASSERT_EQ, and fp_update AP_PLUS2 for CALL, DST for RET and
\* REGULAR otherwise.
C8_Flags ==
    (decoded.kind # "idle" /\ AllValid /\ ~MissingImm) =>
        /\ decoded.kind = "Ok"
        /\ decoded.inst.dst_register = (IF Field(0, 1) = 1 THEN "FP" ELSE "AP")
        /\ decoded.inst.op0_register = (IF Field(1, 1) = 1 THEN "FP" ELSE "AP")
        /\ decoded.inst.op1_addr = Name4(FOp1Src, "Op0", "Imm", "FP", "AP")
        /\ decoded.inst.pc_update = Name4(FPcUpdate, "Regular", "Jump", "JumpRel", "Jnz")
        /\ decoded.inst.opcode = Name4(FOpcode, "NOp", "Call", "Ret", "AssertEq")
        /\ decoded.inst.fp_update =
              (IF FOpcode = 1 THEN "APPlus2" ELSE IF FOpcode = 2 THEN "Dst" ELSE "Regular")

\* the flags 0x2948 of the tests, with dst_reg set: RET, JUMP_REL, op1 FP, op0 AP, dst FP
C8_Witness ==
    /\ decoded.kind = "Ok"
    /\ decoded.inst.opcode = "Ret"
    /\ decoded.inst.fp_update = "Dst"
    /\ decoded.inst.pc_update = "JumpRel"
    /\ decoded.inst.op1_addr = "FP"
    /\ decoded.inst.op0_register = "AP"
    /\ decoded.inst.dst_register = "FP"

\* C9: res is UNCONSTRAINED exactly when res_logic = 0 and pc_update = JNZ; res_logic
\* = 0 with another pc_update gives OP1, res_logic = 1 ADD and res_logic = 2 MUL,
\* whatever pc_update is.
C9_Res ==
    decoded.kind = "Ok" =>
        /\ decoded.inst.res = "Unconstrained" <=> (FResLogic = 0 /\ FPcUpdate = 4)
        /\ (FResLogic = 0 /\ FPcUpdate # 4) => decoded.inst.res = "Op1"
        /\ FResLogic = 1 => decoded.inst.res = "Add"
        /\ FResLogic = 2 => decoded.inst.res = "Mul"

\* the flags 0x4200 of the tests: JNZ with res_logic 0
C9_Witness ==
    /\ decoded.kind = "Ok"
    /\ encoded_instr[4] = 16896
    /\ decoded.inst.res = "Unconstrained"
    /\ decoded.inst.pc_update = "Jnz"

C11_Immediate ==
    decoded.kind # "idle" =>
        /\ decoded.kind = "Ok" =>
              /\ decoded.inst.imm # None <=> FOp1Src = 1
              /\ FOp1Src = 1 => decoded.inst.imm = imm
              /\ FOp1Src # 1 => decoded.inst.imm = None
              /\ size(decoded.inst) = (IF decoded.inst.imm # None THEN 2 ELSE 1)
              /\ size(decoded.inst) = (IF FOp1Src = 1 THEN 2 ELSE 1)
        /\ MissingImm => decoded.kind # "Ok"

\* the immediate 7 supplied with op1_src = AP is discarded, and the size is 1
C11_Witness ==
    /\ decoded.kind = "Ok"
    /\ imm = Some(7)
    /\ FOp1Src = 4
    /\ decoded.inst.imm = None
    /\ size(decoded.inst) = 1

\* the number that encodes a name among the four encodings 0, 1, 2, 4
Code4(name, n0, n1, n2) ==
    IF name = n0 THEN 0 ELSE IF name = n1 THEN 1 ELSE IF name = n2 THEN 2 ELSE 4

\* the flags limb that re-encodes an Instruction: the fields at their bits, UNCONSTRAINED
\* as res_logic 0, ADD2 (of a CALL) as ap_update 0, the reserved bit zero
EncodeFlags(inst) ==
    (IF inst.dst_register = "FP" THEN 1 ELSE 0)
    + 2 * (IF inst.op0_register = "FP" THEN 1 ELSE 0)
    + 4 * Code4(inst.op1_addr, "Op0", "Imm", "FP")
    + 32 * (CASE inst.res = "Add" -> 1 [] inst.res = "Mul" -> 2 [] OTHER -> 0)
    + 128 * Code4(inst.pc_update, "Regular", "Jump", "JumpRel")
    + 1024 * (CASE inst.ap_update = "Add" -> 1 [] inst.ap_update = "Add1" -> 2 [] OTHER -> 0)
    + 4096 * Code4(inst.opcode, "NOp", "Call", "Ret")

\* the word that re-encodes an Instruction, the offsets biased by 2^15
Encode(inst) == <<Bias(inst.off0), Bias(inst.off1), Bias(inst.off2), EncodeFlags(inst)>>

\* C12: for every successfully decoded Instruction I, re-encoding its fields into a word
\* and decoding that word with the same immediate yields an Instruction equal to I.
C12_RoundTrip ==
    decoded.kind = "Ok" =>
        decode_instruction(Encode(decoded.inst), imm) = DecOk(decoded.inst)

\* a CALL with ADD2 and UNCONSTRAINED over a JNZ, a negative off0 and the reserved bit
\* set: the re-encoded word is another word, and decodes to the same Instruction
C12_Witness ==
    /\ decoded.kind = "Ok"
    /\ decoded.inst.res = "Unconstrained"
    /\ decoded.inst.ap_update = "Add2"
    /\ decoded.inst.op1_addr = "Imm"
    /\ decoded.inst.off0 = -1
    /\ Encode(decoded.inst) # encoded_instr
    /\ decode_instruction(Encode(decoded.inst), imm) = decoded

----------------------------------------------------------------------------
(* Claims about the segment manager, continued *)

\* some write of load_data(ptr, values) is rejected: the segment is missing, or a cell
\* holds another value
Rejected(ptr, values) ==
    \/ values # <<>> /\ ptr.s >= Len(data)
    \/ Conflicts(ptr, values)

\* what C13 says of load_data(ptr, values)
C13_LoadData(ptr, values) ==
    /\ ~Rejected(ptr, values) =>
          /\ last_res' = Ok(Rel(ptr.s, ptr.o + Len(values)))
          /\ \A i \in 1..Len(values) : get(data', Rel(ptr.s, ptr.o + i - 1)) = values[i]
    /\ values = <<>> => (last_res' = Ok(ptr) /\ data' = data)
    /\ Rejected(ptr, values) =>
          /\ last_res'.err \in {"UnallocatedSegment", "InconsistentMemory"}
          /\ DOMAIN last_res' = {"err"}
    /\ \A a \in Cells(data') :
          (a.s # ptr.s \/ a.o < ptr.o \/ a.o >= ptr.o + Len(values)) =>
              get(data', a) = get(data, a)

\* (the cheap disjuncts are written first: TLC evaluates the action only where they fail)
C13_Step ==
    last_op' = "load_data" =>
        \A ptr \in Addrs, values \in DataSamples :
            \/ ptr.o + Len(values) > MaxOffset + 1
            \/ last_res' # load_data(data, ptr, values).res
            \/ C13_LoadData(ptr, values)
            \/ ~LoadData(ptr, values)

\* C13: load_data(ptr, values) writes values[i] at ptr + i for every i < len(values)
\* and returns ptr + len(values); with an empty list it writes nothing and returns ptr;
\* if a write is rejected it returns that memory error instead of an address.
C13_LoadDataWrites == [][C13_Step]_vars

\* two values were loaded at (0, 0) and load_data returned (0, 2)
C13_Witness ==
    /\ last_op = "load_data"
    /\ last_res = Ok(Rel(0, 2))
    /\ get(data, Rel(0, 0)) = IntValue(4)
    /\ get(data, Rel(0, 1)) = IntValue(5)

\* the k-th call of add returned (k - 1, 0), and num_segments is the number of calls and
\* the number of segments in memory
C14_Counted ==
    /\ \A k \in 1..Len(bases) : bases[k] = Rel(k - 1, 0)
    /\ num_segments = Len(bases)
    /\ num_segments = Len(data)

\* C14: after any sequence of add() calls on a fresh manager, made directly or through
\* the add_segment hint, the k-th call returned the base (k - 1, 0), num_segments equals
\* the number of calls and the number of segments in memory, and num_segments never
\* decreases.
C14_AddMonotonic == []C14_Counted /\ [][num_segments' >= num_segments]_vars

\* a second segment was added by the hint after a first added directly
C14_Witness ==
    /\ last_op = "add_segment"
    /\ bases = <<Rel(0, 0), Rel(1, 0)>>
    /\ num_segments = 2
    /\ get(data, ap) = Rel(1, 0)

\* a call of compute_effective_sizes with the sizes set leaves them as they are
C15_Step ==
    (last_op' = "compute_effective_sizes" /\ segment_used_sizes # None) =>
        segment_used_sizes' = segment_used_sizes

\* C15: compute_effective_sizes is idempotent: once segment_used_sizes is set, every
\* further call leaves it unchanged, even when cells were written or segments were
\* added between the calls.
C15_Idempotent == [][C15_Step]_vars

\* a call made after a segment was added and a cell written past the sizes computed:
\* the sizes are still those of the first call
C15_Witness ==
    /\ last_op = "compute_effective_sizes"
    /\ stale
    /\ segment_used_sizes = Some(<<0>>)
    /\ num_segments = 2
    /\ get(data, Rel(0, 1)) # None

----------------------------------------------------------------------------
(* Claims about reference resolution.  The claims speak of integers: a usize written *)
(* n < 0 is the integer 2^64 + n, which no sum of the small offsets below equals.     *)

\* a + b stays within 32 bits
Fits(a, b) == IF b > 0 THEN a <= MaxI32 - b ELSE a >= MinI32 - b

\* the usize r is the integer b + o1 + o2, for a usize b and integers o1 and o2
IsSum(r, b, o1, o2) ==
    /\ Fits(o1, o2)
    /\ Fits(b, o1 + o2)
    /\ r = b + (o1 + o2)
    /\ (b >= 0) <=> (r >= 0)

\* the usize b is less than |o|, for an integer o < 0
LessThanAbs(b, o) == b >= 0 /\ b + o < 0

\* the base a resolution that ended without error computed
BaseOf == resolved.base.v

\* both tracking records are present
BothTracked == tracking # None /\ reference.ap_tracking_data # None

\* C16 as stated: resolving an AP-based reference R under the hint's tracking H fails
\* with NoneApTrackingData when either tracking record is absent, fails with
\* InvalidTrackingGroup when R.group # H.group, and otherwise uses base = (ap.segment,
\* ap.offset - (H.offset - R.offset)); an FP-based reference uses fp as base and needs
\* no tracking data.
C16_Original ==
    resolved.kind # "idle" =>
        /\ (reference.register = "AP" /\ ~BothTracked) =>
              (resolved.kind = "Err" /\ resolved.err = "NoneApTrackingData")
        /\ (reference.register = "AP" /\ BothTracked) =>
              LET R == reference.ap_tracking_data.v
                  H == tracking.v
              IN  IF R.group # H.group
                  THEN resolved.kind = "Err" /\ resolved.err = "InvalidTrackingGroup"
                  ELSE /\ resolved.base # None
                       /\ BaseOf.s = ap.s
                       /\ IsSum(BaseOf.o, ap.o, R.offset, -H.offset)
        /\ reference.register = "FP" => (resolved.kind # "Err" /\ resolved.base = Some(fp))

\* C17 as stated: if offset1 < 0 and base.offset < |offset1|, resolution returns "no
\* address" and not an error, whether or not inner_dereference is set.
C17_Original ==
    (/\ resolved.kind # "idle"
     /\ resolved.base # None
     /\ reference.offset1 < 0
     /\ LessThanAbs(BaseOf.o, reference.offset1)) =>
        (resolved.kind = "Ok" /\ resolved.addr = None)

\* the cell at (base.segment, base.offset + offset1), None when there is none
Mid ==
    IF Fits(BaseOf.o, reference.offset1) /\ BaseOf.o >= 0 /\ BaseOf.o + reference.offset1 >= 0
    THEN get(data, Rel(BaseOf.s, BaseOf.o + reference.offset1))
    ELSE None

\* the base is computed and the reference is not unresolvable by its offset1
Resolvable ==
    /\ resolved.kind # "idle"
    /\ resolved.base # None
    /\ ~(reference.offset1 < 0 /\ LessThanAbs(BaseOf.o, reference.offset1))

\* C18 as stated: with inner_dereference set, resolution reads mid = memory[(base.segment,
\* base.offset + offset1)], requires mid to be an address, and returns (mid.segment,
\* mid.offset + offset2); it reads memory only and changes no cell.
C18_Original ==
    (Resolvable /\ reference.inner_dereference) =>
        /\ Mid.t = "rel" =>
              /\ resolved.kind = "Ok"
              /\ resolved.addr # None
              /\ resolved.addr.v.s = Mid.s
              /\ IsSum(resolved.addr.v.o, Mid.o, reference.offset2, 0)
        /\ Mid.t # "rel" => resolved.addr = None
        /\ data = RefMemory

\* C19 as stated: without inner_dereference, every address that resolution returns is
\* (base.segment, base.offset + offset1 + offset2), the sum taken over the integers,
\* and its offset is non-negative.
C19_Original ==
    (/\ resolved.kind = "Ok"
     /\ ~reference.inner_dereference
     /\ resolved.addr # None) =>
        /\ resolved.addr.v.s = BaseOf.s
        /\ IsSum(resolved.addr.v.o, BaseOf.o, reference.offset1, reference.offset2)

----------------------------------------------------------------------------
(* Claims about the hints *)

\* the hint read an integer through the id `a`
ReadsA ==
    /\ "a" \in DOMAIN hint_ids
    /\ hint_ids.a = 0
    /\ get(data, OperandAddr).t = "int"

\* the integer the hint read
ValA == get(data, OperandAddr).v

\* a range_check builtin is registered
HasRangeCheck == \E i \in 1..Len(builtin_runners) : builtin_runners[i].name = "range_check"

\* the bound of the range_check builtin registered
RcBound ==
    LET i == CHOOSE j \in 1..Len(builtin_runners) : builtin_runners[j].name = "range_check"
    IN  builtin_runners[i].bound

\* n mod p: the r in 0 .. p - 1 that n - r is a multiple of p
ModP(n, p) ==
    CHOOSE r \in 0..(p - 1) : \E k \in (-(MaxHintInt + 1))..(MaxHintInt + 1) : n = k * p + r

\* C20: with a range_check builtin of bound b registered, assert_nn succeeds iff the
\* integer a satisfies a mod P < b, and otherwise fails with ValueOutOfRange, in
\* particular for a = P - 1.
C20_AssertNn ==
    (hint_code = "assert_nn" /\ ReadsA /\ HasRangeCheck) =>
        /\ hint_res.err = "Ok" <=> ModP(ValA, prime) < RcBound
        /\ ModP(ValA, prime) >= RcBound =>
              (hint_res.err = "ValueOutOfRange" /\ hint_res.val = ValA)
        /\ (ValA = prime - 1 /\ RcBound < prime) => hint_res.err = "ValueOutOfRange"

\* a = P - 1 is out of range, the range_check builtin registered after the output one
C20_Witness ==
    /\ hint_code = "assert_nn"
    /\ ReadsA
    /\ ValA = prime - 1
    /\ builtin_runners = <<OutputBuiltin, RangeCheckBuiltin(MaxRcBound)>>
    /\ hint_res.err = "ValueOutOfRange"

----------------------------------------------------------------------------
(* Claims about the hints of the math library *)

\* the cell at fp + i
Cell(i) == memory_get(data, Rel(1, i))

\* the cell at fp + i after the step
CellAfter(i) == memory_get(data', Rel(1, i))

\* the step writes the cells of `addrs`, if unset, and no other cell
WritesOnly(addrs) ==
    /\ Cells(data') = Cells(data) \cup addrs
    /\ \A addr \in Cells(data) : get(data', addr) = get(data, addr)
    /\ num_segments' = num_segments

\* the ids assert_le_felt is given: a at fp, b at fp + 1, small_inputs at fp + 2
LeFeltIds == [a |-> 0, b |-> 1, small_inputs |-> 2]

\* assert_le_felt ran on two integers with a range_check builtin registered
LeFeltRan ==
    /\ hint_code' = "assert_le_felt"
    /\ hint_ids' = LeFeltIds
    /\ Cell(0).t = "int"
    /\ Cell(1).t = "int"
    /\ HasRangeCheck

\* C21: assert_le_felt fails (NonLeFelt) when a mod P > b mod P, fails when
\* small_inputs already holds a value, and otherwise writes small_inputs = 1 iff
\* a < b_bound and (a - b) < b_bound, else 0, where b_bound is the bound of the
\* range_check builtin and a, b are the integers as stored.
C21_Step ==
    LeFeltRan =>
        LET a == Cell(0).v
            b == Cell(1).v
            le == ModP(a, prime) <= ModP(b, prime)
        IN  /\ ~le => (hint_res'.err # "Ok" /\ data' = data)
            /\ (~le /\ Cell(2) = None) =>
                  (hint_res'.err = "NonLeFelt" /\ hint_res'.val = <<a, b>>)
            /\ Cell(2) # None => (hint_res'.err = "FailedToGetIds" /\ data' = data)
            /\ (le /\ Cell(2) = None) =>
                  /\ hint_res'.err = "Ok"
                  /\ CellAfter(2) = IntValue(IF a < RcBound /\ (a - b) < RcBound THEN 1 ELSE 0)
                  /\ WritesOnly({Rel(1, 2)})

FloorMod(n, m) ==
    CHOOSE r \in (IF m > 0 THEN 0..(m - 1) ELSE (m + 1)..0) :
        \E k \in (-(MaxHintInt + 1))..(MaxHintInt + 1) : n = k * m + r

\* the ids split_int is given
SplitIntIds == [value |-> 0, base |-> 1, bound |-> 2, output |-> 3]

\* split_int ran on integers, the base not zero, ids.output holding the address of
\* the cell at fp + 4
SplitIntRan ==
    /\ hint_code' = "split_int"
    /\ hint_ids' = SplitIntIds
    /\ Cell(0).t = "int"
    /\ Cell(1).t = "int"
    /\ Cell(1).v # 0
    /\ Cell(2).t = "int"
    /\ Cell(3) = Rel(1, 4)

\* C22: split_int computes res = (value mod P) mod base, fails with
\* SplitIntLimbOutOfRange when res > bound (res = bound is accepted) without writing,
\* and otherwise writes res at the address held in ids.output: the write is that of
\* the write-once memory, which accepts it when the cell is unset or holds res.
C22_Step ==
    SplitIntRan =>
        LET res == FloorMod(ModP(Cell(0).v, prime), Cell(1).v)
            bound == Cell(2).v
        IN  /\ res > bound =>
                  /\ hint_res'.err = "SplitIntLimbOutOfRange"
                  /\ hint_res'.val = res
                  /\ data' = data
            /\ (res <= bound /\ Cell(4) \in {None, IntValue(res)}) =>
                  /\ hint_res'.err = "Ok"
                  /\ CellAfter(4) = IntValue(res)
                  /\ WritesOnly({Rel(1, 4)})
            /\ (res <= bound /\ Cell(4) \notin {None, IntValue(res)}) =>
                  /\ hint_res'.err = "MemoryError"
                  /\ data' = data

AsInt(x, p) == IF x < p \div 2 THEN x ELSE x - p

\* the quotient of n by d > 0, rounded down: the q that n - q * d is in 0 .. d - 1
FloorDiv(n, d) ==
    CHOOSE q \in (-(MaxHintInt + 1))..(MaxHintInt + 1) : n - q * d \in 0..(d - 1)

\* the ids signed_div_rem is given
SignedDivRemIds ==
    [value |-> 0, div |-> 1, bound |-> 2, r |-> 3, biased_q |-> 4, range_check_ptr |-> 0]

\* signed_div_rem ran on integers with a range_check builtin registered
SignedDivRemRan ==
    /\ hint_code' = "signed_div_rem"
    /\ hint_ids' = SignedDivRemIds
    /\ Cell(0).t = "int"
    /\ Cell(1).t = "int"
    /\ Cell(2).t = "int"
    /\ HasRangeCheck

\* the cell at fp + i is unset or holds the integer n: the write-once memory accepts n
Accepts(i, n) == Cell(i) \in {None, IntValue(n)}

\* C25: signed_div_rem fails unless 0 < div <= P / b_bound and bound <= b_bound / 2;
\* it computes (q, r) = floor-divmod(as_int(value), div), fails unless
\* -bound <= q < bound, and otherwise writes r and biased_q = q + bound, so that
\* 0 <= r < div and as_int(value) = (biased_q - bound) * div + r.
C25_Step ==
    SignedDivRemRan =>
        LET value == AsInt(Cell(0).v, prime)
            div == Cell(1).v
            bound == Cell(2).v
            valid == 0 < div /\ div <= prime \div RcBound /\ bound <= RcBound \div 2
            q == FloorDiv(value, div)
            r == value - q * div
            fits == (0 - bound) <= q /\ q < bound
        IN  /\ ~valid => (hint_res'.err = "OutOfValidRange" /\ data' = data)
            /\ (valid /\ ~fits) =>
                  /\ hint_res'.err = "OutOfValidRange"
                  /\ hint_res'.val = <<q, bound>>
                  /\ data' = data
            /\ (valid /\ fits /\ Accepts(3, r) /\ Accepts(4, q + bound)) =>
                  /\ hint_res'.err = "Ok"
                  /\ CellAfter(3) = IntValue(r)
                  /\ CellAfter(4) = IntValue(q + bound)
                  /\ WritesOnly({Rel(1, 3), Rel(1, 4)})
                  /\ 0 <= CellAfter(3).v /\ CellAfter(3).v < div
                  /\ value = (CellAfter(4).v - bound) * div + CellAfter(3).v
            /\ (valid /\ fits /\ ~(Accepts(3, r) /\ Accepts(4, q + bound))) =>
                  hint_res'.err = "MemoryError"
            /\ hint_res'.err = "Ok" => (valid /\ fits)

C25_SignedDivRem == [][C25_Step]_vars

\* value = 5 with P = 7 is -2; div = 3 and bound = 1 with the bound 2 of the builtin:
\* q = -1 and r = 1 are written as r = 1 and biased_q = 0
C25_Witness ==
    /\ hint_code = "signed_div_rem"
    /\ hint_ids = SignedDivRemIds
    /\ hint_res.err = "Ok"
    /\ prime = 7
    /\ HasRangeCheck
    /\ RcBound = 2
    /\ Cell(0) = IntValue(5)
    /\ Cell(1) = IntValue(3)
    /\ Cell(2) = IntValue(1)
    /\ Cell(3) = IntValue(1)
    /\ Cell(4) = IntValue(0)

\* the ids unsigned_div_rem is given
UnsignedDivRemIds == [value |-> 0, div |-> 1, r |-> 3, q |-> 4]

\* unsigned_div_rem ran on integers, the range_check builtin being the first builtin
UnsignedDivRemRan ==
    /\ hint_code' = "unsigned_div_rem"
    /\ hint_ids' = UnsignedDivRemIds
    /\ Cell(0).t = "int"
    /\ Cell(1).t = "int"
    /\ Len(builtin_runners) > 0
    /\ builtin_runners[1].name = "range_check"

\* C26: unsigned_div_rem fails with OutOfValidRange unless 0 < div <= P / b_bound
\* (integer division), and otherwise writes q and r with (q, r) = divmod(value, div),
\* i.e. value = q * div + r and 0 <= r < div.
C26_Step ==
    UnsignedDivRemRan =>
        LET value == Cell(0).v
            div == Cell(1).v
            valid == 0 < div /\ div <= prime \div RcBound
            q == FloorDiv(value, div)
            r == value - q * div
        IN  /\ ~valid =>
                  /\ hint_res'.err = "OutOfValidRange"
                  /\ hint_res'.val = <<div, prime \div RcBound>>
                  /\ data' = data
            /\ (valid /\ Accepts(3, r) /\ Accepts(4, q)) =>
                  /\ hint_res'.err = "Ok"
                  /\ WritesOnly({Rel(1, 3), Rel(1, 4)})
                  /\ CellAfter(3).t = "int" /\ CellAfter(4).t = "int"
                  /\ value = CellAfter(4).v * div + CellAfter(3).v
                  /\ 0 <= CellAfter(3).v /\ CellAfter(3).v < div
            /\ (valid /\ ~(Accepts(3, r) /\ Accepts(4, q))) => hint_res'.err = "MemoryError"

C26_UnsignedDivRem == [][C26_Step]_vars

\* value = -5 and div = 3 with P = 7 and the bound 2: q = -2 and r = 1 are written
C26_Witness ==
    /\ hint_code = "unsigned_div_rem"
    /\ hint_ids = UnsignedDivRemIds
    /\ hint_res.err = "Ok"
    /\ prime = 7
    /\ builtin_runners = <<RangeCheckBuiltin(2), OutputBuiltin>>
    /\ Cell(0) = IntValue(-5)
    /\ Cell(1) = IntValue(3)
    /\ Cell(3) = IntValue(1)
    /\ Cell(4) = IntValue(-2)

\* C29: the outcome of unsigned_div_rem depends only on whether a range_check builtin
\* is registered, not on the other builtins or on their order: with a range_check
\* builtin among the builtins of the virtual machine the hint never fails with
\* NoRangeCheckBuiltin, as is the case for signed_div_rem.
C29_Original ==
    (hint_code \in {"unsigned_div_rem", "signed_div_rem"} /\ HasRangeCheck) =>
        hint_res.err # "NoRangeCheckBuiltin"

\* the hints that only check
CheckOnly ==
    {"assert_nn", "assert_not_zero", "assert_not_equal", "assert_lt_felt",
     "split_int_assert_range"}

\* C28: the check-only hints assert_nn, assert_not_zero, assert_not_equal,
\* assert_lt_felt and split_int_assert_range never write: whether they succeed or
\* fail, every memory cell, the number of segments and pc, ap and fp are the same
\* after the call as before it.
C28_Step ==
    hint_code' \in CheckOnly =>
        /\ data' = data
        /\ num_segments' = num_segments
        /\ pc' = pc
        /\ ap' = ap
        /\ fp' = fp

C28_CheckOnly == [][C28_Step]_vars

\* assert_lt_felt succeeded on a = 6 and b = 4 with P = 5: 1 < 4 modulo P
C28_Witness ==
    /\ hint_code = "assert_lt_felt"
    /\ hint_res.err = "Ok"
    /\ prime = 5
    /\ Cell(0) = IntValue(6)
    /\ Cell(1) = IntValue(4)
    /\ Cell(2) = None
    /\ Cells(data) = {Rel(1, 0), Rel(1, 1)}

----------------------------------------------------------------------------
(* Claims about split_felt and assert_250_bit *)

\* x * 2^128
Shl128(x) == [i \in 1..BigWidth |-> IF i <= 8 THEN 0 ELSE x[i - 8]]

\* x * 2^128 is within the limbs: the limbs of x from the ninth on extend its sign
FitsShl128(x) ==
    \/ x[9] < Limb \div 2 /\ \A i \in 10..BigWidth : x[i] = 0
    \/ x[9] >= Limb \div 2 /\ \A i \in 10..BigWidth : x[i] = Limb - 1

\* 0 <= low < 2^128
IsLow(low) == \A i \in 9..BigWidth : low[i] = 0

\* x = high * 2^128 + low with 0 <= low < 2^128
IsSplit(x, high, low) ==
    /\ FitsShl128(high)
    /\ IsLow(low)
    /\ big_add_carry(Shl128(high), low, 0, 1) = x

\* the constants of the Cairo library: MAX_HIGH = 2^123 + 17 * 2^64 and MAX_LOW = 0
MAX_HIGH == [i \in 1..BigWidth |-> IF i = 8 THEN 2048 ELSE IF i = 5 THEN 17 ELSE 0]

MAX_LOW == [i \in 1..BigWidth |-> 0]

\* the ids split_felt is given: value at fp, low at fp + 1, high at fp + 2
SplitFeltIds == [value |-> 0, low |-> 1, high |-> 2]

\* C23: split_felt requires P - 1 == MAX_HIGH * 2^128 + MAX_LOW and fails when that
\* equality does not hold.
C23_Original ==
    (hint_code = "split_felt" /\ hint_res.err = "Ok") =>
        IsSplit(big_sub(prime, shl_one(0)), MAX_HIGH, MAX_LOW)

\* C24: when split_felt succeeds on an integer value it has written
\* low = value & (2^128 - 1) and high = value >> 128, so that
\* value = high * 2^128 + low with 0 <= low < 2^128; a value cell holding an address
\* makes it fail with ExpectedInteger.
C24_Step ==
    (hint_code' = "split_felt" /\ hint_ids' = SplitFeltIds) =>
        /\ (Cell(0).t = "int" /\ hint_res'.err = "Ok") =>
              /\ CellAfter(1).t = "int" /\ CellAfter(2).t = "int"
              /\ IsSplit(Cell(0).v, CellAfter(2).v, CellAfter(1).v)
              /\ WritesOnly({Rel(1, 1), Rel(1, 2)})
        /\ (Cell(0).t = "int" /\ Cell(1) = None /\ Cell(2) = None) => hint_res'.err = "Ok"
        /\ Cell(0).t = "rel" =>
              /\ hint_res'.err = "ExpectedInteger"
              /\ hint_res'.val = Rel(1, 0)
              /\ data' = data

C24_SplitFelt == [][C24_Step]_vars

\* value = -1: low = 2^128 - 1 and high = -1 are written
C24_Witness ==
    /\ hint_code = "split_felt"
    /\ hint_ids = SplitFeltIds
    /\ hint_res.err = "Ok"
    /\ Cell(0) = IntValue([i \in 1..BigWidth |-> Limb - 1])
    /\ Cell(1) = IntValue([i \in 1..BigWidth |-> IF i <= 8 THEN Limb - 1 ELSE 0])
    /\ Cell(2) = IntValue([i \in 1..BigWidth |-> Limb - 1])

\* the ids assert_250_bit is given: value at fp, high at fp + 1, low at fp + 2
Assert250BitIds == [value |-> 0, high |-> 1, low |-> 2]

\* assert_250_bit ran on an integer
Assert250BitRan ==
    /\ hint_code' = "assert_250_bit"
    /\ hint_ids' = Assert250BitIds
    /\ Cell(0).t = "int"

\* the largest multiple of P a value is away from its residue
MaxMultiple == 17

RECURSIVE Multiples(_)
\* 0, P, 2 * P, .. n * P
Multiples(n) ==
    IF n = 0 THEN <<[i \in 1..BigWidth |-> 0]>>
    ELSE LET m == Multiples(n - 1) IN Append(m, big_add_carry(m[n], prime, 0, 1))

\* 0 <= x < P
IsReduced(x) == x[BigWidth] < Limb \div 2 /\ big_lt(x, prime)

\* x is as_int(value) mod P: x is in 0 .. P - 1 and differs from value, and so from
\* as_int(value), by a multiple of P
IsResidue(x, value) ==
    /\ IsReduced(x)
    /\ LET m == Multiples(MaxMultiple)
       IN  \E k \in 1..Len(m) : big_sub(value, x) = m[k] \/ big_sub(x, value) = m[k]

\* the number assert_250_bit has split into the high and low it has written
Written250 == big_add_carry(Shl128(CellAfter(1).v), CellAfter(2).v, 0, 1)

\* assert_250_bit fails with ValueOutside250BitRange unless as_int(value) mod P is at
\* most 2^250, and otherwise writes a high and a low, 0 <= low < 2^128, with
\* high * 2^128 + low = as_int(value) mod P
Range250 ==
    Assert250BitRan =>
        /\ hint_res'.err \in {"Ok", "ValueOutside250BitRange", "MemoryError"}
        /\ hint_res'.err = "MemoryError" => (Cell(1) # None \/ Cell(2) # None)
        /\ hint_res'.err = "ValueOutside250BitRange" =>
              /\ IsResidue(hint_res'.val, Cell(0).v)
              /\ big_lt(shl_one(250), hint_res'.val)
              /\ data' = data
        /\ hint_res'.err = "Ok" =>
              /\ CellAfter(1).t = "int" /\ CellAfter(2).t = "int"
              /\ FitsShl128(CellAfter(1).v)
              /\ IsLow(CellAfter(2).v)
              /\ IsResidue(Written250, Cell(0).v)
              /\ ~big_lt(shl_one(250), Written250)
              /\ WritesOnly({Rel(1, 1), Rel(1, 2)})

\* C27, as stated: assert_250_bit fails with ValueOutside250BitRange unless
\* as_int(value) mod P <= 2^250, and otherwise writes high and low with
\* (high, low) = divmod(value, 2^128), i.e. value = high * 2^128 + low and
\* 0 <= low < 2^128.
C27_OriginalStep ==
    /\ Range250
    /\ (Assert250BitRan /\ hint_res'.err = "Ok") =>
          IsSplit(Cell(0).v, CellAfter(1).v, CellAfter(2).v)

C27_Step ==
    /\ Range250
    /\ (Assert250BitRan /\ hint_res'.err = "Ok" /\ IsReduced(Cell(0).v)) =>
          IsSplit(Cell(0).v, CellAfter(1).v, CellAfter(2).v)

----------------------------------------------------------------------------
(* Claims about the reserved bit of an instruction *)

\* the word with bit 63, the bit 15 of its flags, changed
FlipBit63(word) ==
    [word EXCEPT ![4] = IF word[4] >= Limb \div 2 THEN word[4] - Limb \div 2
                        ELSE word[4] + Limb \div 2]

\* C30: the result of decode_instruction does not depend on bit 63 of the word (flag
\* bit 15, the reserved bit): two words that differ only in that bit decode to the
\* same Instruction or to the same error, and a word is never rejected because the
\* reserved bit is set.
C30_ReservedBit ==
    decoded.kind # "idle" =>
        /\ decoded = decode_instruction(FlipBit63(encoded_instr), imm)
        /\ (encoded_instr[4] >= Limb \div 2 /\ decoded.kind # "Ok") =>
              decode_instruction(FlipBit63(encoded_instr), imm).kind # "Ok"

\* a word with the reserved bit set was decoded to an instruction
C30_Witness ==
    /\ decoded.kind = "Ok"
    /\ encoded_instr[4] >= Limb \div 2
    /\ decode_instruction(FlipBit63(encoded_instr), imm).kind = "Ok"

====
